---- MODULE Spec2Model ----
(***************************************************************************)
(* A model of gsplat's tile-based forward compositor                       *)
(* (rasterize_to_pixels_fwd.cu): the kernel rasterize_to_pixels_fwd_kernel *)
(* run by a grid of thread blocks, and the host entry point                *)
(* rasterize_to_pixels_fwd_tensor that dispatches it.                      *)
(*                                                                         *)
(* Numbers.  The kernel computes in float32.  The model computes in fixed  *)
(* point: a real x in [-2, 2] is the integer x * FxOne, and every float    *)
(* product is a fixed-point product rounded to nearest (Mul), so a product *)
(* is inexact here as it is in the kernel.  Coordinates are in half        *)
(* pixels, so that the pixel centre j + 0.5 is the integer 2j + 1, and     *)
(* the quadratic form sigma is in eighths (Sigma8).  __expf is tabulated   *)
(* at multiples of 1/2 (ExpTable); the scene below only produces such      *)
(* values.  NaN and infinite inputs are outside the model.                 *)
(*                                                                         *)
(* Scheduling.  The threads of a block interleave freely between the       *)
(* block's barriers.  Blocks share no memory but the output buffers; the   *)
(* model runs them one at a time, in any order.                            *)
(***************************************************************************)
EXTENDS Integers, Sequences, FiniteSets, TLC

VARIABLES
    \* ---- kernel arguments (fixed once the kernel is launched)
    geom,               \* C, image_width, image_height, tile_size, tile_width, tile_height
    n_isects,           \* length of flatten_ids
    tile_offsets,       \* [0 .. C*tile_height*tile_width-1 -> 0 .. n_isects]
    flatten_ids,        \* [0 .. n_isects-1 -> record id]
    has_backgrounds,    \* backgrounds != nullptr
    \* ---- per-thread registers
    pc, b, t, T, cur_idx, pix_out, done,
    \* ---- per-block shared memory
    id_batch, xy_opacity_batch, conic_batch,
    \* ---- outputs
    render_colors, render_alphas, last_ids,
    \* ---- bookkeeping: number of stores to each output pixel, stores outside
    \*      the output buffers, records evaluated by each thread, sum of the
    \*      weights vis each thread has accumulated
    nwrites, oob_writes, evaluated, vis_sum,
    \* ---- host entry point
    host_pc,            \* "call", "returned" or "error"
    channels,           \* colors.size(-1)
    inputs_ok,          \* every CHECK_INPUT of the call passes
    device_limit,       \* the largest dynamic shared memory the device grants a kernel
    launched,           \* the kernel has been enqueued
    host_error,         \* the error the call raised
    \* ---- projection backward: arguments of the call
    N, C, nnz,          \* means.size(0), viewmats.size(0), camera_ids.size(0)
    camera_ids,         \* [0 .. nnz-1 -> 0 .. C-1]
    gaussian_ids,       \* [0 .. nnz-1 -> 0 .. N-1]
    v_depths,           \* [0 .. nnz-1 -> upstream gradient of the record]
    has_covars,         \* covars.has_value()
    has_quats,          \* quats.has_value()
    has_scales,         \* scales.has_value()
    has_compensations,  \* compensations.has_value()
    has_v_compensations, \* v_compensations.has_value()
    viewmats_requires_grad,
    sparse_grad,
    ndebug,             \* the translation unit was compiled with NDEBUG
    \* ---- projection backward: the call and the kernel's threads
    bwd_pc,             \* "call", "returned", "error" or "aborted"
    bwd_launched,       \* the kernel has been enqueued
    kpc,                \* position of each thread of the grid
    regs,               \* v_mean, v_covar, v_quat, v_scale, v_R, v_t of each thread
                        \* (v_covar: a diagonal entry; v_covar_01, v_covar_10: the
                        \* two halves of an off-diagonal entry)
    \* ---- projection backward: the gradients returned
    v_means, v_covars, v_quats, v_scales, v_viewmats,
    v_covars_off,       \* entry 1 of each row of v_covars, an off-diagonal entry
    \* ---- bookkeeping: the threads that stored to each row of the
    \*      primitive-gradient buffers, reads through a null pointer
    writers, null_reads

kernelArgs == <<geom, n_isects, tile_offsets, flatten_ids, has_backgrounds>>
threadVars == <<pc, b, t, T, cur_idx, pix_out, done>>
sharedVars == <<id_batch, xy_opacity_batch, conic_batch>>
outVars    == <<render_colors, render_alphas, last_ids>>
ghostVars  == <<nwrites, oob_writes, evaluated, vis_sum>>
hostVars   == <<host_pc, channels, inputs_ok, device_limit, launched, host_error>>
fwdVars    == <<kernelArgs, threadVars, sharedVars, outVars, ghostVars, hostVars>>
bwdArgs    == <<N, C, nnz, camera_ids, gaussian_ids, v_depths, has_covars, has_quats,
                has_scales, has_compensations, has_v_compensations,
                viewmats_requires_grad, sparse_grad, ndebug>>
bwdGrads   == <<v_means, v_covars, v_covars_off, v_quats, v_scales, v_viewmats>>
bwdVars    == <<bwdArgs, bwd_pc, bwd_launched, kpc, regs, bwdGrads, writers, null_reads>>
vars == <<fwdVars, bwdVars>>

----------------------------------------------------------------------------
(* Bounds of the model *)

\* records of the launches whose tiles take more than one batch
MaxIsectsBatch == 6

\* the longest flattened record array
MaxIsects == 4
\* the same for the geometries whose blocks have several threads
MaxIsectsWide == 3
\* the channel count of the kernel instantiation the kernel specification runs
ModelChannels == 2
\* the host specification tries every channel count up to this one (and the
\* larger ones of LargeChannelCounts)
MaxChannels == 10
\* the longest flattened record array of the host specification
HostMaxIsects == 1
\* the most visibility records of the projection backward
MaxNnz == 3
\* the lanes of a warp in the model of the projection backward (a warp of the
\* device has 32; the model scales the warp and the block down together)
WarpLanes == 2
\* the most visibility records of the projection backward's host specification
HostMaxNnz == 2

----------------------------------------------------------------------------
(* Fixed-point arithmetic standing for float32 *)

\* 1.0f
FxOne == 1000000
\* the square root of FxOne: products are formed in two halves, to stay
\* within the model checker's integers
FxRoot == 1000

Min(x, y) == IF x <= y THEN x ELSE y
Abs(x) == IF x < 0 THEN -x ELSE x

\* x * y / FxOne rounded to nearest, for x, y >= 0
MulAbs(x, y) ==
    LET xh == x \div FxRoot
        xl == x % FxRoot
        yh == y \div FxRoot
        yl == y % FxRoot
    IN  xh * yh
        + ((xh * yl + xl * yh) + (xl * yl + FxOne \div 2) \div FxRoot) \div FxRoot

\* a float product, rounded to nearest
Mul(x, y) ==
    IF (x < 0) = (y < 0) THEN MulAbs(Abs(x), Abs(y)) ELSE -MulAbs(Abs(x), Abs(y))

\* 0.999f, the cap on alpha
ALPHA_MAX == 999000
\* the 255 of the threshold 1.f / 255.f
ALPHA_DENOM == 255
\* 1e-4, the transmittance cut-off
T_CUTOFF == 100

\* e^(-k/2) for k = 0, 1, 2, ...
ExpTable == <<1000000, 606531, 367879, 223130, 135335, 82085, 49787,
              30197, 18316, 11109, 6738, 4087, 2479, 1503,
              912, 553, 335, 203, 123, 75, 45,
              28, 17, 10, 6, 4, 2, 1>>

\* __expf(-sigma), sigma given in eighths
ExpNeg(sigma8) ==
    IF sigma8 < 0 THEN 2 * FxOne
    ELSE IF sigma8 \div 4 >= Len(ExpTable) THEN 0
    ELSE ExpTable[sigma8 \div 4 + 1]

----------------------------------------------------------------------------
(* The scene: the record arrays the kernel reads, indexed by record id g. *)
(* Record 0 is a tight splat on pixel (0,0) with an opacity above 1: its   *)
(* alpha is capped at 0.999 there, is 0.162 one pixel away and below the  *)
(* threshold two pixels away.  Record 1 is flat: alpha 0.9 at every       *)
(* pixel.  Record 2 has an indefinite conic: alpha 0.068 at pixel (0,0),  *)
(* 0.5 at (0,1), negative sigma at (0,2); it has the colour of record 0.  *)

\* [nnz, 2], in half pixels
means2d == <<<<1, 1>>, <<3, 1>>, <<3, 3>>>>
\* [nnz, 3]
conics == <<<<4, 0, 4>>, <<0, 0, 0>>, <<0, 2, 0>>>>
\* [nnz]
opacities == <<1200000, 900000, 500000>>
NumRecords == Len(means2d)

\* the template parameter: the host dispatches the instantiation for the
\* channel count of the colors tensor
COLOR_DIM == channels
Channels == 1 .. COLOR_DIM
ZeroColor == [k \in Channels |-> 0]

\* the first channels of each record and of each camera's background;
\* further channels repeat them
ColorTable == <<<<1000000, 200000>>, <<0, 1000000>>, <<1000000, 200000>>>>
BackgroundTable == <<<<300000, 700000>>, <<1000000, 200000>>>>
\* [nnz, COLOR_DIM]
colors(g, k) == ColorTable[g + 1][((k - 1) % 2) + 1]
\* [C, COLOR_DIM]
backgrounds(c, k) == BackgroundTable[c + 1][((k - 1) % 2) + 1]

----------------------------------------------------------------------------
(* Launch geometry *)

Geometries == {
    \* two cameras, one pixel each, blocks of one thread
    [C |-> 2, image_width |-> 1, image_height |-> 1, tile_size |-> 1,
     tile_width |-> 1, tile_height |-> 1],
    \* one camera, 3x1 image, two tiles of 2x2 threads: threads outside the image
    [C |-> 1, image_width |-> 3, image_height |-> 1, tile_size |-> 2,
     tile_width |-> 2, tile_height |-> 1],
    \* a tile grid that does not cover the image
    [C |-> 1, image_width |-> 2, image_height |-> 1, tile_size |-> 1,
     tile_width |-> 1, tile_height |-> 1]
}

\* dim3 blocks = {C, tile_height, tile_width}
BlocksOf(gm) ==
    (0 .. gm.C - 1) \X (0 .. gm.tile_height - 1) \X (0 .. gm.tile_width - 1)
\* dim3 threads = {tile_size, tile_size, 1}; a thread is <<block, y, x>>
ThreadsOf(gm) ==
    BlocksOf(gm) \X (0 .. gm.tile_size - 1) \X (0 .. gm.tile_size - 1)

Blocks == BlocksOf(geom)
Threads == ThreadsOf(geom)
BlockOf(th) == th[1]
ThreadsIn(blk) == {th \in Threads : BlockOf(th) = blk}

camera_id(blk) == blk[1]
tile_id(blk) == blk[2] * geom.tile_width + blk[3]
\* block.size()
block_size == geom.tile_size * geom.tile_size
\* block.thread_rank()
tr(th) == th[2] * geom.tile_size + th[3]

\* pixel row and column of a thread
PixI(th) == BlockOf(th)[2] * geom.tile_size + th[2]
PixJ(th) == BlockOf(th)[3] * geom.tile_size + th[3]
\* pixel centre, in half pixels
px(th) == 2 * PixJ(th) + 1
py(th) == 2 * PixI(th) + 1
pix_id(th) == PixI(th) * geom.image_width + PixJ(th)

insideAlways(th) == TRUE
inside(th) == PixI(th) < geom.image_height /\ PixJ(th) < geom.image_width

\* where camera_id's image starts in render_alphas and last_ids
ImageBase(blk) == camera_id(blk) * geom.image_height * geom.image_width
NumPixels(gm) == gm.C * gm.image_height * gm.image_width
OutIndex(th) == ImageBase(BlockOf(th)) + pix_id(th)

----------------------------------------------------------------------------
(* The range of a tile *)

NumTiles(gm) == gm.C * gm.tile_height * gm.tile_width
\* index of (camera, tile) in the flattened offset table
OffsetIndex(blk) == camera_id(blk) * geom.tile_height * geom.tile_width + tile_id(blk)

range_startOfCameraZero(blk) == tile_offsets[tile_id(blk)]
range_start(blk) == tile_offsets[OffsetIndex(blk)]

range_endLastTileOfCamera(blk) ==
    IF tile_id(blk) = geom.tile_width * geom.tile_height - 1
    THEN n_isects
    ELSE tile_offsets[OffsetIndex(blk) + 1]
range_end(blk) ==
    IF camera_id(blk) = geom.C - 1
       /\ tile_id(blk) = geom.tile_width * geom.tile_height - 1
    THEN n_isects
    ELSE tile_offsets[OffsetIndex(blk) + 1]

num_batchesWhole(blk) == (range_end(blk) - range_start(blk)) \div block_size
num_batches(blk) ==
    (range_end(blk) - range_start(blk) + block_size - 1) \div block_size

batch_start(blk, bb) == range_start(blk) + block_size * bb
batch_size(blk, bb) == Min(block_size, range_end(blk) - batch_start(blk, bb))

----------------------------------------------------------------------------
(* The per-record arithmetic of the compositing loop *)

\* 8 * sigma
Sigma8(conic, delta) ==
    conic[1] * delta[1] * delta[1] + conic[3] * delta[2] * delta[2]
    + 2 * conic[2] * delta[1] * delta[2]

AlphaUncapped(opac, sigma8) == Mul(opac, ExpNeg(sigma8))
Alpha(opac, sigma8) == Min(ALPHA_MAX, Mul(opac, ExpNeg(sigma8)))

SkipsNever(sigma8, alpha) == FALSE
Skips(sigma8, alpha) == sigma8 < 0 \/ alpha * ALPHA_DENOM < FxOne

NextTNoUpdate(TT, alpha) == TT
NextTSignError(TT, alpha) == Mul(TT, FxOne + alpha)
NextT(TT, alpha) == Mul(TT, FxOne - alpha)

CutsOffNever(next_T) == FALSE
CutsOffAtTenth(next_T) == next_T <= FxOne \div 10
CutsOff(next_T) == next_T <= T_CUTOFF

VisPost(alpha, TT) == Mul(alpha, Mul(TT, FxOne - alpha))
VisNoT(alpha, TT) == alpha
Vis(alpha, TT) == Mul(alpha, TT)

Accumulate(out, g, vis) == [k \in Channels |-> out[k] + Mul(colors(g, k), vis)]

----------------------------------------------------------------------------
(* Memory the kernel finds uninitialised *)

\* an id_batch slot no thread has stored to (extern __shared__)
NO_RECORD == -1
\* an output element no thread has stored to (torch::empty)
UNWRITTEN == -1

NoTriple == <<0, 0, 0>>

\* a store through a pointer: outside the buffer it leaves the buffer as it is
\* (and is counted in oob_writes)
Store(buf, idx, v) == IF idx \in DOMAIN buf THEN [buf EXCEPT ![idx] = v] ELSE buf

----------------------------------------------------------------------------
(* The kernel's arguments *)

NonDecreasing(f, n) == \A x \in 0 .. n - 2 : f[x] <= f[x + 1]

\* the input contract of the tile-binning stage: the ranges partition
\* flatten_ids, so the offsets start at 0 and never decrease
TileOffsetTables(gm, n) ==
    {f \in [0 .. NumTiles(gm) - 1 -> 0 .. n] : f[0] = 0 /\ NonDecreasing(f, NumTiles(gm))}

MaxIsectsOf(g) == IF g.tile_size > 1 THEN MaxIsectsWide ELSE MaxIsects

InitKernelArgs ==
    /\ geom \in Geometries
    /\ n_isects \in 0 .. MaxIsectsOf(geom)
    /\ flatten_ids \in [0 .. n_isects - 1 -> 0 .. NumRecords - 1]
    /\ tile_offsets \in TileOffsetTables(geom, n_isects)
    /\ has_backgrounds \in BOOLEAN

InitThreads ==
    /\ pc = [th \in ThreadsOf(geom) |-> "start"]
    /\ b = [th \in ThreadsOf(geom) |-> 0]
    /\ t = [th \in ThreadsOf(geom) |-> 0]
    /\ T = [th \in ThreadsOf(geom) |-> FxOne]
    /\ cur_idx = [th \in ThreadsOf(geom) |-> 0]
    /\ pix_out = [th \in ThreadsOf(geom) |-> ZeroColor]
    /\ done = [th \in ThreadsOf(geom) |-> FALSE]
    /\ evaluated = [th \in ThreadsOf(geom) |-> <<>>]
    /\ vis_sum = [th \in ThreadsOf(geom) |-> 0]

InitShared ==
    /\ id_batch = [blk \in BlocksOf(geom) |->
                      [s \in 0 .. geom.tile_size * geom.tile_size - 1 |-> NO_RECORD]]
    /\ xy_opacity_batch = [blk \in BlocksOf(geom) |->
                      [s \in 0 .. geom.tile_size * geom.tile_size - 1 |-> NoTriple]]
    /\ conic_batch = [blk \in BlocksOf(geom) |->
                      [s \in 0 .. geom.tile_size * geom.tile_size - 1 |-> NoTriple]]

InitOutputs ==
    /\ render_colors = [p \in 0 .. NumPixels(geom) - 1 |-> [k \in Channels |-> UNWRITTEN]]
    /\ render_alphas = [p \in 0 .. NumPixels(geom) - 1 |-> UNWRITTEN]
    /\ last_ids = [p \in 0 .. NumPixels(geom) - 1 |-> UNWRITTEN]
    /\ nwrites = [p \in 0 .. NumPixels(geom) - 1 |-> 0]
    /\ oob_writes = 0

\* the projection backward is not running
InitBackwardIdle ==
    /\ N = 0 /\ C = 0 /\ nnz = 0
    /\ camera_ids = <<>> /\ gaussian_ids = <<>> /\ v_depths = <<>>
    /\ has_covars = FALSE /\ has_quats = FALSE /\ has_scales = FALSE
    /\ has_compensations = FALSE /\ has_v_compensations = FALSE
    /\ viewmats_requires_grad = FALSE /\ sparse_grad = FALSE /\ ndebug = FALSE
    /\ bwd_pc = "idle" /\ bwd_launched = FALSE
    /\ kpc = <<>> /\ regs = <<>>
    /\ v_means = <<>> /\ v_covars = <<>> /\ v_covars_off = <<>> /\ v_quats = <<>>
    /\ v_scales = <<>> /\ v_viewmats = <<>>
    /\ writers = [v_means |-> <<>>, v_covars |-> <<>>, v_quats |-> <<>>, v_scales |-> <<>>,
                 v_viewmats |-> <<>>]
    /\ null_reads = {}


\* the kernel specification starts at the launch: the host call has passed
\* its checks and dispatched the instantiation for COLOR_DIM channels
InitHostLaunched ==
    /\ host_pc = "returned"
    /\ channels = ModelChannels
    /\ inputs_ok = TRUE
    /\ device_limit = 0
    /\ launched = TRUE
    /\ host_error = "none"

Init ==
    /\ InitBackwardIdle
    /\ InitHostLaunched
    /\ InitKernelArgs
    /\ InitThreads
    /\ InitShared
    /\ InitOutputs

----------------------------------------------------------------------------
(* The kernel, one action per step of a thread between two barriers *)

NoBlockRunning == \A th \in Threads : pc[th] \in {"start", "exit"}

\* where a thread goes when it leaves the batch loop: if (inside) it stores
\* its pixel, otherwise it returns
AfterLoop(th) == IF inside(th) THEN "final" ELSE "exit"

\* for (b = 0; b < num_batches; ++b): the loop test with the counter at bb.
\* The thread either waits in __syncthreads_count(done) or leaves the loop.
LoopTestDoneLeaves(th, bb) ==
    IF bb < num_batches(BlockOf(th)) /\ ~done[th] THEN "vote" ELSE AfterLoop(th)
LoopTest(th, bb) == IF bb < num_batches(BlockOf(th)) THEN "vote" ELSE AfterLoop(th)

\* A block becomes resident: its threads set up their registers
\* (done = !inside, T = 1, cur_idx = 0, pix_out = 0) and reach the batch loop.
BlockStart(blk) ==
    /\ launched
    /\ NoBlockRunning
    /\ \A th \in ThreadsIn(blk) : pc[th] = "start"
    /\ pc' = [th \in Threads |-> IF BlockOf(th) = blk THEN LoopTest(th, 0) ELSE pc[th]]
    /\ done' = [th \in Threads |-> IF BlockOf(th) = blk THEN ~inside(th) ELSE done[th]]
    /\ UNCHANGED <<kernelArgs, b, t, T, cur_idx, pix_out, sharedVars, outVars,
                   ghostVars, hostVars, bwdVars>>

\* the threads that leave the barrier of __syncthreads_count break out of the
\* batch loop when every thread of the block is done
VoteBreaksNever(blk) == FALSE
VoteBreaks(blk) == Cardinality({th \in ThreadsIn(blk) : done[th]}) >= block_size

\* a barrier of the block completes once every thread of the block waits in it
BarrierCompleteAny(blk, at) == \E th \in ThreadsIn(blk) : pc[th] = at
BarrierComplete(blk, at) == \A th \in ThreadsIn(blk) : pc[th] = at

\* __syncthreads_count(done) completes once every thread of the block waits in it
VoteRelease(blk) ==
    /\ BarrierComplete(blk, "vote")
    /\ pc' = [th \in Threads |->
                 IF BlockOf(th) # blk THEN pc[th]
                 ELSE IF VoteBreaks(blk) THEN AfterLoop(th) ELSE "load"]
    /\ UNCHANGED <<kernelArgs, b, t, T, cur_idx, pix_out, done, sharedVars,
                   outVars, ghostVars, hostVars, bwdVars>>

\* each thread fetches one record of the batch into its slot of shared memory,
\* then waits in block.sync()
Load(th) ==
    /\ pc[th] = "load"
    /\ LET blk == BlockOf(th)
           idx == batch_start(blk, b[th]) + tr(th)
           g == flatten_ids[idx]
       IN  IF idx < range_end(blk)
           THEN /\ id_batch' = [id_batch EXCEPT ![blk][tr(th)] = g]
                /\ xy_opacity_batch' = [xy_opacity_batch EXCEPT ![blk][tr(th)] =
                       <<means2d[g + 1][1], means2d[g + 1][2], opacities[g + 1]>>]
                /\ conic_batch' = [conic_batch EXCEPT ![blk][tr(th)] = conics[g + 1]]
           ELSE UNCHANGED sharedVars
    /\ pc' = [pc EXCEPT ![th] = "sync"]
    /\ UNCHANGED <<kernelArgs, b, t, T, cur_idx, pix_out, done, outVars,
                   ghostVars, hostVars, bwdVars>>

\* block.sync() completes; a thread that is done skips the batch
\* (the inner loop tests !done first) and goes on to the next one
SyncRelease(blk) ==
    /\ BarrierComplete(blk, "sync")
    /\ pc' = [th \in Threads |->
                 IF BlockOf(th) # blk THEN pc[th]
                 ELSE IF done[th] THEN LoopTest(th, b[th] + 1) ELSE "consume"]
    /\ b' = [th \in Threads |->
                 IF BlockOf(th) = blk /\ done[th] THEN b[th] + 1 ELSE b[th]]
    /\ t' = [th \in Threads |-> IF BlockOf(th) = blk THEN 0 ELSE t[th]]
    /\ UNCHANGED <<kernelArgs, T, cur_idx, pix_out, done, sharedVars, outVars,
                   ghostVars, hostVars, bwdVars>>

\* index of most recent gaussian to write to this thread's pixel
CurIdxRecordId(blk, bb, tt) == id_batch[blk][tt]
CurIdxInBatch(blk, bb, tt) == tt
CurIdx(blk, bb, tt) == batch_start(blk, bb) + tt

\* one iteration of the inner loop: the thread evaluates slot t of the batch
Consume(th) ==
    /\ pc[th] = "consume"
    /\ LET blk == BlockOf(th)
           conic == conic_batch[blk][t[th]]
           xy_opac == xy_opacity_batch[blk][t[th]]
           opac == xy_opac[3]
           delta == <<xy_opac[1] - px(th), xy_opac[2] - py(th)>>
           sigma == Sigma8(conic, delta)
           alpha == Alpha(opac, sigma)
           next_T == NextT(T[th], alpha)
           g == id_batch[blk][t[th]]
           vis == Vis(alpha, T[th])
           skip == Skips(sigma, alpha)
           cut == ~skip /\ CutsOff(next_T)
           \* the inner loop ends: break, or t + 1 reaches batch_size
           leaves == cut \/ t[th] + 1 >= batch_size(blk, b[th])
       IN  /\ done' = [done EXCEPT ![th] = cut]
           /\ T' = [T EXCEPT ![th] = IF skip \/ cut THEN @ ELSE next_T]
           /\ pix_out' = [pix_out EXCEPT ![th] =
                             IF skip \/ cut THEN @ ELSE Accumulate(@, g, vis)]
           /\ cur_idx' = [cur_idx EXCEPT ![th] =
                             IF skip \/ cut THEN @ ELSE CurIdx(blk, b[th], t[th])]
           /\ t' = [t EXCEPT ![th] = IF leaves THEN 0 ELSE @ + 1]
           /\ b' = [b EXCEPT ![th] = IF leaves THEN @ + 1 ELSE @]
           /\ pc' = [pc EXCEPT ![th] =
                        IF leaves THEN LoopTest(th, b[th] + 1) ELSE "consume"]
           /\ evaluated' = [evaluated EXCEPT ![th] =
                             Append(@, batch_start(blk, b[th]) + t[th])]
           /\ vis_sum' = [vis_sum EXCEPT ![th] = IF skip \/ cut THEN @ ELSE @ + vis]
    /\ UNCHANGED <<kernelArgs, sharedVars, outVars, nwrites, oob_writes, hostVars, bwdVars>>

\* render_alphas[pix_id] = 1.0f - T
Coverage(TT) == FxOne - TT

FinalColorNoBackground(th) == pix_out[th]
\* backgrounds == nullptr ? pix_out[k] : (pix_out[k] + T * backgrounds[k])
FinalColor(th) ==
    [k \in Channels |->
        IF has_backgrounds
        THEN pix_out[th][k] + Mul(T[th], backgrounds(camera_id(BlockOf(th)), k))
        ELSE pix_out[th][k]]

\* after the batch loop: a thread inside the image stores its pixel
Final(th) ==
    /\ pc[th] = "final"
    /\ pc' = [pc EXCEPT ![th] = "exit"]
    /\ render_alphas' = Store(render_alphas, OutIndex(th), Coverage(T[th]))
    /\ render_colors' = Store(render_colors, OutIndex(th), FinalColor(th))
    /\ last_ids' = Store(last_ids, OutIndex(th), cur_idx[th])
    /\ nwrites' = Store(nwrites, OutIndex(th),
                        IF OutIndex(th) \in DOMAIN nwrites
                        THEN nwrites[OutIndex(th)] + 1 ELSE 0)
    /\ oob_writes' = IF OutIndex(th) \in DOMAIN nwrites
                     THEN oob_writes ELSE oob_writes + 1
    /\ UNCHANGED <<kernelArgs, b, t, T, cur_idx, pix_out, done, sharedVars,
                   evaluated, vis_sum, hostVars, bwdVars>>

Next ==
    \/ \E blk \in Blocks : BlockStart(blk)
    \/ \E blk \in Blocks : VoteRelease(blk)
    \/ \E th \in Threads : Load(th)
    \/ \E blk \in Blocks : SyncRelease(blk)
    \/ \E th \in Threads : Consume(th)
    \/ \E th \in Threads : Final(th)

Spec == Init /\ [][Next]_vars

\* Launches with a tile that takes more than one batch: two cameras, each a
\* 1x2 image under one tile of 2x2 threads, so that two threads of a block own
\* a pixel and two lie outside the image.  The tile of camera 0 holds record
\* 0 alone; the tile of camera 1 holds the other records, any of them at any
\* position.
BatchGeometry ==
    [C |-> 2, image_width |-> 1, image_height |-> 2, tile_size |-> 2,
     tile_width |-> 1, tile_height |-> 1]

InitBatch ==
    /\ InitBackwardIdle
    /\ InitHostLaunched
    /\ geom = BatchGeometry
    /\ n_isects = MaxIsectsBatch
    /\ flatten_ids \in {f \in [0 .. n_isects - 1 -> 0 .. NumRecords - 1] : f[0] = 0}
    /\ tile_offsets \in {f \in TileOffsetTables(geom, n_isects) : f[1] = 1}
    /\ has_backgrounds = FALSE
    /\ InitThreads
    /\ InitShared
    /\ InitOutputs

SpecBatch == InitBatch /\ [][Next]_vars

\* Launches of one tile under every range length up to MaxIsectsSingle: none,
\* fewer records than the block has threads, as many, and more, a multiple of
\* the block size or not.  One camera with one tile, of one thread or of 2x2
\* threads over a 1x2 image.
MaxIsectsSingle == 5
SingleTileGeometries == {
    [C |-> 1, image_width |-> 1, image_height |-> 1, tile_size |-> 1,
     tile_width |-> 1, tile_height |-> 1],
    [C |-> 1, image_width |-> 1, image_height |-> 2, tile_size |-> 2,
     tile_width |-> 1, tile_height |-> 1]
}

InitSingleTile ==
    /\ InitBackwardIdle
    /\ InitHostLaunched
    /\ geom \in SingleTileGeometries
    /\ n_isects \in 0 .. MaxIsectsSingle
    /\ flatten_ids \in [0 .. n_isects - 1 -> 0 .. NumRecords - 1]
    /\ tile_offsets \in TileOffsetTables(geom, n_isects)
    /\ has_backgrounds = TRUE
    /\ InitThreads
    /\ InitShared
    /\ InitOutputs

SpecSingleTile == InitSingleTile /\ [][Next]_vars

----------------------------------------------------------------------------
(* The host entry point rasterize_to_pixels_fwd_tensor *)

\* the cases of switch (channels)
SupportedChannelsUpTo9 ==
    (1 .. 9) \cup {16, 17, 32, 33, 64, 65, 128, 129, 256, 257, 512, 513}
SupportedChannels ==
    {1, 2, 3, 4, 5, 8, 9, 16, 17, 32, 33, 64, 65, 128, 129, 256, 257, 512, 513}

\* sizeof(int32_t) and sizeof(float3)
SIZEOF_INT32 == 4
SIZEOF_FLOAT3 == 12

\* tile_size * tile_size * (sizeof(int32_t) + sizeof(float3) + sizeof(float3))
shared_mem == geom.tile_size * geom.tile_size * (SIZEOF_INT32 + SIZEOF_FLOAT3 + SIZEOF_FLOAT3)

\* cudaFuncSetAttribute(kernel, cudaFuncAttributeMaxDynamicSharedMemorySize,
\* shared_mem) succeeds
AttributeAcceptedAlways == TRUE
AttributeAccepted == shared_mem <= device_limit

\* The call: the input checks, the switch on the channel count, the
\* shared-memory attribute, the launch.  The kernel is enqueued on the stream
\* and runs after the call has launched it.
rasterize_to_pixels_fwd_tensor ==
    /\ host_pc = "call"
    /\ host_error' =
          IF ~inputs_ok THEN "check_input"
          ELSE IF channels \notin SupportedChannels THEN "unsupported_channels"
          ELSE IF ~AttributeAccepted THEN "shared_memory"
          ELSE "none"
    /\ launched' = (inputs_ok /\ channels \in SupportedChannels /\ AttributeAccepted)
    /\ host_pc' = IF launched' THEN "returned" ELSE "error"
    /\ UNCHANGED <<kernelArgs, threadVars, sharedVars, outVars, ghostVars,
                   channels, inputs_ok, device_limit, bwdVars>>

\* channel counts the host specification tries beyond 0 .. MaxChannels
LargeChannelCounts ==
    {15, 16, 17, 18, 32, 33, 34, 64, 65, 66, 128, 129, 130, 256, 257, 258,
     511, 512, 513, 514}

\* the dynamic shared memory limits of two devices, in bytes
DeviceLimits == {64, 49152}

HostGeometries == {
    [C |-> 1, image_width |-> 1, image_height |-> 1, tile_size |-> 1,
     tile_width |-> 1, tile_height |-> 1],
    [C |-> 1, image_width |-> 1, image_height |-> 1, tile_size |-> 2,
     tile_width |-> 1, tile_height |-> 1]
}

InitHost ==
    /\ InitBackwardIdle
    /\ host_pc = "call"
    /\ channels \in (0 .. MaxChannels) \cup LargeChannelCounts
    /\ inputs_ok \in BOOLEAN
    /\ device_limit \in DeviceLimits
    /\ launched = FALSE
    /\ host_error = "none"
    /\ geom \in HostGeometries
    /\ n_isects \in 0 .. HostMaxIsects
    /\ flatten_ids \in [0 .. n_isects - 1 -> 0 .. NumRecords - 1]
    /\ tile_offsets \in TileOffsetTables(geom, n_isects)
    /\ has_backgrounds \in BOOLEAN
    /\ InitThreads
    /\ InitShared
    /\ InitOutputs

NextHost ==
    \/ rasterize_to_pixels_fwd_tensor
    \/ Next

SpecHost == InitHost /\ [][NextHost]_vars

----------------------------------------------------------------------------
(* Projection backward: fully_fused_projection_packed_bwd_kernel.
   The gradients are float; the model takes them from the non-negative integers
   below 2^31 and adds them as float does, rounding the sum to a 24-bit
   significand, ties to even.  A row of a gradient buffer is stood for by one
   element of it. *)

\* the significand of float
FLT_MANT_DIG == 24

\* x rounded to the nearest float, ties to even (x >= 0)
RoundFloat(x) ==
    IF x < 2 ^ FLT_MANT_DIG THEN x
    ELSE LET e == CHOOSE k \in 1 .. 6 :
                      x < 2 ^ (FLT_MANT_DIG + k) /\ x >= 2 ^ (FLT_MANT_DIG + k - 1)
             ulp == 2 ^ e
             q == x \div ulp
             r == x % ulp
         IN  IF 2 * r > ulp \/ (2 * r = ulp /\ q % 2 = 1)
             THEN (q + 1) * ulp
             ELSE q * ulp

\* float operator+ and atomicAdd's sum
FAddExact(x, y) == x + y
FAdd(x, y) == RoundFloat(x + y)

\* threads per block, a multiple of the warp
N_THREADS == 2 * WarpLanes

\* blocks * threads of <<<(nnz + N_THREADS - 1) / N_THREADS, N_THREADS>>>
GridThreads(n) == ((n + N_THREADS - 1) \div N_THREADS) * N_THREADS
KThreads == DOMAIN kpc

\* cg::tiled_partition<32>(cg::this_thread_block()): the warp of a thread
WarpOf(idx) == idx \div WarpLanes
KWarps == {WarpOf(idx) : idx \in KThreads}
LanesOf(w) == {idx \in KThreads : WarpOf(idx) = w}

\* an undefined torch::Tensor
NoTensor == <<>>
\* torch::zeros({rows, ...})
Zeros(rows) == [r \in 0 .. rows - 1 |-> 0]

\* The gradients a thread computes for its record (lines 66-123), as a
\* function of the record's upstream gradient.  comp is the compensation term
\* the thread read.
LocalGradients(idx, comp) ==
    [v_mean  |-> v_depths[idx] * (1 + comp),
     v_covar |-> 2 * v_depths[idx] * (1 + comp),
     v_covar_01 |-> 1 + comp,
     v_covar_10 |-> 2 * (1 + comp),
     v_quat  |-> v_depths[idx] * (1 + comp),
     v_scale |-> 2 * v_depths[idx] * (1 + comp),
     v_R     |-> v_depths[idx] * (1 + comp),
     v_t     |-> 2 * v_depths[idx] * (1 + comp)]
NoGradients == [v_mean |-> 0, v_covar |-> 0, v_covar_01 |-> 0, v_covar_10 |-> 0,
                v_quat |-> 0, v_scale |-> 0,
                v_R |-> 0, v_t |-> 0]

\* the upstream gradients: all ones, or the first record with a gradient of
\* 2^24, beside which a one is lost to rounding
UpstreamTables(n) ==
    {[i \in 0 .. n - 1 |-> 1],
     [i \in 0 .. n - 1 |-> IF i = 0 THEN 2 ^ FLT_MANT_DIG ELSE 1]}

\* The id columns of n records.  The kernel uses an id only as a row index,
\* so the ids are interchangeable and the first record's id is taken as 0.
IdColumns(n, rows) == {f \in [0 .. n - 1 -> 0 .. rows - 1] : n = 0 \/ f[0] = 0}

\* means.size(0) and viewmats.size(0) of the calls the model makes
PrimitiveCounts == {2}
CameraCounts == {2}

\* what a read of compensations[idx] can give
CompensationValues == {0, 1}

\* How lines 48-78 can go for a thread: it returns at once (idx >= nnz); or it
\* reads its record, and with v_compensations given it reads
\* compensations[idx].  Through a null pointer that read is undefined: it
\* traps the kernel or gives any value.
ReadsNull(idx) == idx < nnz /\ has_v_compensations /\ ~has_compensations
ComputeOutcomes(idx) ==
    IF idx >= nnz THEN {<<"return", 0>>}
    ELSE IF ReadsNull(idx)
    THEN {<<"trap", 0>>} \cup {<<"value", comp>> : comp \in CompensationValues}
    ELSE {<<"value", 0>>}

\* after the primitive gradients: if (v_viewmats != nullptr)
AfterPrimitive == IF viewmats_requires_grad THEN "partition_c" ELSE "exit"

\* the row of the sparse layout a thread stores to: v_means += idx * 3
SparseRowOfPrimitive(idx) == gaussian_ids[idx]
SparseRow(idx) == idx

\* a plain store to a row of a buffer
Plain(buf, row, v) == IF row \in DOMAIN buf THEN [buf EXCEPT ![row] = v] ELSE buf

\* the buffers of the primitive gradients the kernel is given
PrimitiveBuffers ==
    IF has_covars THEN {"v_means", "v_covars"} ELSE {"v_means", "v_quats", "v_scales"}

\* lines 138 and 179: v_covar[0][1] + v_covar[1][0], the off-diagonal entry of
\* the six stored
OffDiagonalUpper(g) == g.v_covar_01
OffDiagonal(g) == FAdd(g.v_covar_01, g.v_covar_10)

\* lines 126-157: the sparse layout, plain stores to the thread's own row
SparseStores(idx, grads) ==
    /\ v_means' = Plain(v_means, SparseRow(idx), grads.v_mean)
    /\ IF has_covars
       THEN /\ v_covars' = Plain(v_covars, SparseRow(idx), grads.v_covar)
            /\ v_covars_off' = Plain(v_covars_off, SparseRow(idx), OffDiagonal(grads))
            /\ UNCHANGED <<v_quats, v_scales>>
       ELSE /\ v_quats' = Plain(v_quats, SparseRow(idx), grads.v_quat)
            /\ v_scales' = Plain(v_scales, SparseRow(idx), grads.v_scale)
            /\ UNCHANGED <<v_covars, v_covars_off>>
    /\ writers' = [name \in DOMAIN writers |->
                      IF SparseRow(idx) \in DOMAIN writers[name] /\ name \in PrimitiveBuffers
                      THEN [writers[name] EXCEPT ![SparseRow(idx)] = @ \cup {idx}]
                      ELSE writers[name]]

\* lines 48-157: a thread past the end of the records returns; the others
\* compute the gradients of their record, and in the sparse layout store them
\* (the computation is local to the thread, so it is taken in one step with
\* the stores); in the dense layout the thread arrives at the partition of
\* its warp.
Compute(idx) ==
    /\ bwd_launched
    /\ kpc[idx] = "start"
    /\ null_reads' = IF ReadsNull(idx) THEN null_reads \cup {idx} ELSE null_reads
    /\ \E outcome \in ComputeOutcomes(idx) :
          IF outcome[1] = "return"
          THEN /\ kpc' = [kpc EXCEPT ![idx] = "exit"]
               /\ UNCHANGED <<regs, v_means, v_covars, v_covars_off, v_quats, v_scales, writers>>
          ELSE IF outcome[1] = "trap"
          THEN /\ kpc' = [i \in KThreads |-> "trap"]
               /\ UNCHANGED <<regs, v_means, v_covars, v_covars_off, v_quats, v_scales, writers>>
          ELSE /\ regs' = [regs EXCEPT ![idx] = LocalGradients(idx, outcome[2])]
               /\ IF sparse_grad
                  THEN /\ SparseStores(idx, LocalGradients(idx, outcome[2]))
                       /\ kpc' = [kpc EXCEPT ![idx] = AfterPrimitive]
                  ELSE /\ kpc' = [kpc EXCEPT ![idx] = "partition_g"]
                       /\ UNCHANGED <<v_means, v_covars, v_covars_off, v_quats, v_scales, writers>>
    /\ UNCHANGED <<fwdVars, bwdArgs, bwd_pc, bwd_launched, v_viewmats>>

\* cg::labeled_partition(warp, label): the lanes of the thread's warp that
\* have not returned and carry the thread's label
GroupOfWarp(idx, label) == {j \in LanesOf(WarpOf(idx)) : j < nnz}
GroupOf(idx, label) ==
    {j \in LanesOf(WarpOf(idx)) : j < nnz /\ label[j] = label[idx]}
\* warp_group.thread_rank() == 0
IsLeaderEveryLane(idx, label) == TRUE
IsLeader(idx, label) == \A j \in GroupOf(idx, label) : idx <= j

\* warpSum(val, group): the sum of the group's values.  The order in which
\* cg::reduce adds them is the library's, so every order is taken.
RECURSIVE WarpSums(_, _)
WarpSums(group, val) ==
    IF Cardinality(group) = 1
    THEN {val[CHOOSE j \in group : TRUE]}
    ELSE UNION {{FAdd(x, y) : x \in WarpSums(part, val),
                              y \in WarpSums(group \ part, val)} :
                   part \in (SUBSET group) \ {{}, group}}

ReducedValuesOwn(w, f, label, labels) ==
    LET lanes == {j \in LanesOf(w) : j < nnz}
    IN  {[l \in labels |->
            IF \E j \in lanes : label[j] = l
            THEN regs[CHOOSE j \in lanes :
                         label[j] = l /\ \A k \in lanes : label[k] = l => j <= k][f]
            ELSE 0]}
\* the results warpSum can leave in register f of the lanes of warp w, one
\* per label
ReducedValues(w, f, label, labels) ==
    LET lanes == {j \in LanesOf(w) : j < nnz}
        sums(l) == LET group == {j \in lanes : label[j] = l}
                   IN  IF group = {} THEN {0}
                       ELSE WarpSums(group, [j \in group |-> regs[j][f]])
    IN  {p \in [labels -> UNION {sums(l) : l \in labels}] :
            \A l \in labels : p[l] \in sums(l)}

\* labeled_partition and warpSum complete once every lane of the warp that has
\* not returned has arrived
WarpArrivedAllLanes(w, at) == \A idx \in LanesOf(w) : kpc[idx] = at
WarpArrived(w, at) ==
    /\ \A idx \in LanesOf(w) : kpc[idx] \in {at, "exit"}
    /\ \E idx \in LanesOf(w) : kpc[idx] = at

\* lines 162-164, 175, 191-192: the lanes of a warp are partitioned by
\* primitive id and the gradients of each group are summed into its lanes
PartitionG(w) ==
    /\ WarpArrived(w, "partition_g")
    /\ \E pm \in ReducedValues(w, "v_mean", gaussian_ids, 0 .. N - 1) :
       \E pc1 \in ReducedValues(w, IF has_covars THEN "v_covar" ELSE "v_quat",
                                gaussian_ids, 0 .. N - 1) :
       \E ps \in ReducedValues(w, IF has_covars THEN "v_covar" ELSE "v_scale",
                               gaussian_ids, 0 .. N - 1) :
       \E p01 \in ReducedValues(w, "v_covar_01", gaussian_ids, 0 .. N - 1) :
       \E p10 \in ReducedValues(w, "v_covar_10", gaussian_ids, 0 .. N - 1) :
          regs' = [idx \in KThreads |->
                      IF WarpOf(idx) # w \/ idx >= nnz THEN regs[idx]
                      ELSE IF has_covars
                      THEN [regs[idx] EXCEPT !.v_mean = pm[gaussian_ids[idx]],
                                             !.v_covar = pc1[gaussian_ids[idx]],
                                             !.v_covar_01 = p01[gaussian_ids[idx]],
                                             !.v_covar_10 = p10[gaussian_ids[idx]]]
                      ELSE [regs[idx] EXCEPT !.v_mean = pm[gaussian_ids[idx]],
                                             !.v_quat = pc1[gaussian_ids[idx]],
                                             !.v_scale = ps[gaussian_ids[idx]]]]
    /\ kpc' = [idx \in KThreads |->
                  IF WarpOf(idx) # w \/ kpc[idx] = "exit" THEN kpc[idx]
                  ELSE IF IsLeader(idx, gaussian_ids) THEN "atomic_g"
                  ELSE AfterPrimitive]
    /\ UNCHANGED <<fwdVars, bwdArgs, bwd_pc, bwd_launched, bwdGrads, writers, null_reads>>

\* the record of the threads that have written each row: thread idx has
\* written row row of the buffers named
Adds(names, row, idx) ==
    [name \in DOMAIN writers |->
        IF name \in names /\ row \in DOMAIN writers[name]
        THEN [writers[name] EXCEPT ![row] = @ \cup {idx}]
        ELSE writers[name]]

\* atomicAdd(address, val)
AtomicStore(buf, row, v) == IF row \in DOMAIN buf THEN [buf EXCEPT ![row] = v] ELSE buf
AtomicAdd(buf, row, v) ==
    IF row \in DOMAIN buf THEN [buf EXCEPT ![row] = FAdd(@, v)] ELSE buf

\* lines 165-171, 176-184, 193-203: the leader of a group adds the group's sums
\* to the rows of its primitive (the adds go to different addresses and are
\* taken in one step)
AtomicG(idx) ==
    /\ kpc[idx] = "atomic_g"
    /\ v_means' = AtomicAdd(v_means, gaussian_ids[idx], regs[idx].v_mean)
    /\ IF has_covars
       THEN /\ v_covars' = AtomicAdd(v_covars, gaussian_ids[idx], regs[idx].v_covar)
            /\ v_covars_off' = AtomicAdd(v_covars_off, gaussian_ids[idx],
                                         OffDiagonal(regs[idx]))
            /\ UNCHANGED <<v_quats, v_scales>>
       ELSE /\ v_quats' = AtomicAdd(v_quats, gaussian_ids[idx], regs[idx].v_quat)
            /\ v_scales' = AtomicAdd(v_scales, gaussian_ids[idx], regs[idx].v_scale)
            /\ UNCHANGED <<v_covars, v_covars_off>>
    /\ writers' = Adds(PrimitiveBuffers, gaussian_ids[idx], idx)
    /\ kpc' = [kpc EXCEPT ![idx] = AfterPrimitive]
    /\ UNCHANGED <<fwdVars, bwdArgs, bwd_pc, bwd_launched, regs, v_viewmats, null_reads>>

\* lines 208-210: the lanes of a warp are partitioned by camera id and the
\* rotation and translation gradients of each group are summed
PartitionC(w) ==
    /\ WarpArrived(w, "partition_c")
    /\ \E pR \in ReducedValues(w, "v_R", camera_ids, 0 .. C - 1) :
       \E pt \in ReducedValues(w, "v_t", camera_ids, 0 .. C - 1) :
          regs' = [idx \in KThreads |->
                      IF WarpOf(idx) # w \/ idx >= nnz THEN regs[idx]
                      ELSE [regs[idx] EXCEPT !.v_R = pR[camera_ids[idx]],
                                             !.v_t = pt[camera_ids[idx]]]]
    /\ kpc' = [idx \in KThreads |->
                  IF WarpOf(idx) # w \/ kpc[idx] = "exit" THEN kpc[idx]
                  ELSE IF IsLeader(idx, camera_ids) THEN "atomic_c"
                  ELSE "exit"]
    /\ UNCHANGED <<fwdVars, bwdArgs, bwd_pc, bwd_launched, bwdGrads, writers, null_reads>>

\* lines 211-221: the leader of a group adds the group's sums to the 4x4 of
\* its camera
AtomicC(idx) ==
    /\ kpc[idx] = "atomic_c"
    /\ v_viewmats' =
          IF camera_ids[idx] \in DOMAIN v_viewmats
          THEN [v_viewmats EXCEPT ![camera_ids[idx]] =
                   [R |-> FAdd(@.R, regs[idx].v_R), t |-> FAdd(@.t, regs[idx].v_t)]]
          ELSE v_viewmats
    /\ writers' = Adds({"v_viewmats"}, camera_ids[idx], idx)
    /\ kpc' = [kpc EXCEPT ![idx] = "exit"]
    /\ UNCHANGED <<fwdVars, bwdArgs, bwd_pc, bwd_launched, regs, v_means, v_covars,
                   v_covars_off, v_quats, v_scales, null_reads>>

----------------------------------------------------------------------------
(* Projection backward: the host entry point
   fully_fused_projection_packed_bwd_tensor *)

\* rows of the primitive-gradient buffers: {nnz, ...} or zeros_like(means)
GradRowsAlwaysDense == N
GradRows == IF sparse_grad THEN nnz ELSE N

ZeroMat == [R |-> 0, t |-> 0]

\* lines 276-299: the gradients the call allocates
AllocMeans == Zeros(GradRows)
AllocCovars == IF has_covars THEN Zeros(GradRows) ELSE NoTensor
AllocQuats == IF has_covars THEN NoTensor ELSE Zeros(GradRows)
AllocScales == IF has_covars THEN NoTensor ELSE Zeros(GradRows)
AllocViewmats ==
    IF viewmats_requires_grad THEN [c \in 0 .. C - 1 |-> ZeroMat] ELSE NoTensor
NoWriters(buf) == [r \in DOMAIN buf |-> {}]

\* line 251: assert(quats.has_value() && scales.has_value()) fails, or, the
\* assert compiled out, quats.value() or scales.value() throws
ShapeMissing == ~has_covars /\ ~(has_quats /\ has_scales)
ShapeEnding == IF ndebug THEN "bad_optional_access" ELSE "aborted"
\* line 268: assert(compensations.has_value()) fails
CompensationAssertFails == has_v_compensations /\ ~has_compensations /\ ~ndebug

\* how the call can end: a CHECK_INPUT fails (before the asserts, or for the
\* tensors checked after line 251, behind it), an assert aborts the process,
\* value() of an empty optional throws, or the call returns
Endings ==
    (IF inputs_ok THEN {} ELSE {"check_input"})
    \cup (IF ShapeMissing THEN {ShapeEnding}
          ELSE IF ~inputs_ok THEN {}
          ELSE IF CompensationAssertFails THEN {"aborted"}
          ELSE {"returned"})

\* if (nnz) kernel<<<...>>>
LaunchesAlways == TRUE
Launches == nnz > 0

\* The call: the checks, the allocation of the zeroed gradients, the launch.
\* A call that does not return leaves no gradient behind.
fully_fused_projection_packed_bwd_tensor ==
    /\ bwd_pc = "call"
    /\ \E ending \in Endings :
          /\ bwd_pc' = ending
          /\ IF ending = "returned"
             THEN /\ v_means' = AllocMeans
                  /\ v_covars' = AllocCovars
                  /\ v_covars_off' = AllocCovars
                  /\ v_quats' = AllocQuats
                  /\ v_scales' = AllocScales
                  /\ v_viewmats' = AllocViewmats
                  /\ writers' = [v_means |-> NoWriters(AllocMeans),
                                 v_covars |-> NoWriters(AllocCovars),
                                 v_quats |-> NoWriters(AllocQuats),
                                 v_scales |-> NoWriters(AllocScales),
                                 v_viewmats |-> NoWriters(AllocViewmats)]
                  /\ bwd_launched' = Launches
             ELSE UNCHANGED <<bwdGrads, writers, bwd_launched>>
    /\ UNCHANGED <<fwdVars, bwdArgs, kpc, regs, null_reads>>

----------------------------------------------------------------------------
(* Projection backward: initial states and specifications *)

\* the forward compositor is not running
InitForwardIdle ==
    /\ host_pc = "idle"
    /\ channels = ModelChannels
    /\ inputs_ok = TRUE
    /\ device_limit = 0
    /\ launched = FALSE
    /\ host_error = "none"
    /\ geom = [C |-> 1, image_width |-> 1, image_height |-> 1, tile_size |-> 1,
               tile_width |-> 1, tile_height |-> 1]
    /\ n_isects = 0
    /\ flatten_ids = <<>>
    /\ tile_offsets = [i \in 0 .. NumTiles(geom) - 1 |-> 0]
    /\ has_backgrounds = FALSE
    /\ InitThreads
    /\ InitShared
    /\ InitOutputs

InitGrid ==
    /\ kpc = [idx \in 0 .. GridThreads(nnz) - 1 |-> "start"]
    /\ regs = [idx \in 0 .. GridThreads(nnz) - 1 |-> NoGradients]
    /\ null_reads = {}

\* the kernel has been launched by a call whose optional inputs match
InitBwd ==
    /\ InitForwardIdle
    /\ N \in PrimitiveCounts
    /\ C \in CameraCounts
    /\ nnz \in 1 .. MaxNnz
    /\ camera_ids \in IdColumns(nnz, C)
    /\ gaussian_ids \in IdColumns(nnz, N)
    /\ v_depths \in UpstreamTables(nnz)
    /\ has_covars \in BOOLEAN
    /\ has_quats = ~has_covars
    /\ has_scales = ~has_covars
    /\ has_compensations = TRUE
    /\ has_v_compensations = TRUE
    /\ viewmats_requires_grad \in BOOLEAN
    /\ sparse_grad \in BOOLEAN
    /\ ndebug = FALSE
    /\ bwd_pc = "returned"
    /\ bwd_launched = TRUE
    /\ v_means = AllocMeans
    /\ v_covars = AllocCovars
    /\ v_covars_off = AllocCovars
    /\ v_quats = AllocQuats
    /\ v_scales = AllocScales
    /\ v_viewmats = AllocViewmats
    /\ writers = [v_means |-> NoWriters(AllocMeans), v_covars |-> NoWriters(AllocCovars),
                  v_quats |-> NoWriters(AllocQuats), v_scales |-> NoWriters(AllocScales),
                  v_viewmats |-> NoWriters(AllocViewmats)]
    /\ InitGrid

NextBwd ==
    \/ \E idx \in KThreads : Compute(idx)
    \/ \E w \in KWarps : PartitionG(w)
    \/ \E idx \in KThreads : AtomicG(idx)
    \/ \E w \in KWarps : PartitionC(w)
    \/ \E idx \in KThreads : AtomicC(idx)

SpecBwd == InitBwd /\ [][NextBwd]_vars

\* The kernel under a scheduler that keeps running some thread or warp that
\* can take a step: the device runs every resident warp to completion.  The
\* control flow of the kernel does not depend on the gradient values, so the
\* upstream gradients are all ones.
InitBwdOnes == InitBwd /\ v_depths = [i \in 0 .. nnz - 1 |-> 1]
SpecBwdFair == InitBwdOnes /\ [][NextBwd]_vars /\ WF_vars(NextBwd)

\* the optional inputs a call can be given: covars, or quats and scales, or
\* quats alone, or none of them
ShapeInputs == {<<TRUE, FALSE, FALSE>>, <<FALSE, TRUE, TRUE>>,
                <<FALSE, TRUE, FALSE>>, <<FALSE, FALSE, FALSE>>}

\* the call is about to be made
InitBwdHost ==
    /\ host_pc = "idle"
    /\ channels = ModelChannels
    /\ inputs_ok \in BOOLEAN
    /\ device_limit = 0
    /\ launched = FALSE
    /\ host_error = "none"
    /\ geom = [C |-> 1, image_width |-> 1, image_height |-> 1, tile_size |-> 1,
               tile_width |-> 1, tile_height |-> 1]
    /\ n_isects = 0
    /\ flatten_ids = <<>>
    /\ tile_offsets = [i \in 0 .. NumTiles(geom) - 1 |-> 0]
    /\ has_backgrounds = FALSE
    /\ InitThreads
    /\ InitShared
    /\ InitOutputs
    /\ N \in PrimitiveCounts
    /\ C \in CameraCounts
    /\ nnz \in 0 .. HostMaxNnz
    /\ camera_ids \in IdColumns(nnz, C)
    /\ gaussian_ids \in IdColumns(nnz, N)
    /\ v_depths = [i \in 0 .. nnz - 1 |-> 1]
    /\ \E shape \in ShapeInputs :
          /\ has_covars = shape[1]
          /\ has_quats = shape[2]
          /\ has_scales = shape[3]
    /\ has_compensations \in BOOLEAN
    /\ has_v_compensations \in BOOLEAN
    /\ viewmats_requires_grad \in BOOLEAN
    /\ sparse_grad \in BOOLEAN
    /\ ndebug \in BOOLEAN
    /\ bwd_pc = "call"
    /\ bwd_launched = FALSE
    /\ v_means = NoTensor
    /\ v_covars = NoTensor
    /\ v_covars_off = NoTensor
    /\ v_quats = NoTensor
    /\ v_scales = NoTensor
    /\ v_viewmats = NoTensor
    /\ writers = [v_means |-> <<>>, v_covars |-> <<>>, v_quats |-> <<>>, v_scales |-> <<>>,
                 v_viewmats |-> <<>>]
    /\ InitGrid

NextBwdHost ==
    \/ fully_fused_projection_packed_bwd_tensor
    \/ NextBwd

SpecBwdHost == InitBwdHost /\ [][NextBwdHost]_vars

----------------------------------------------------------------------------
(* Reference definitions the properties are stated against.  They are      *)
(* written from the kernel's arguments alone: the pixel a thread owns,     *)
(* the range of its tile, and a sequential front-to-back fold over it.     *)

InImage(th) ==
    /\ BlockOf(th)[2] * geom.tile_size + th[2] \in 0 .. geom.image_height - 1
    /\ BlockOf(th)[3] * geom.tile_size + th[3] \in 0 .. geom.image_width - 1

\* the pixel of a thread in the output buffers [C, image_height, image_width]
PixelOf(th) ==
    (BlockOf(th)[1] * geom.image_height
       + BlockOf(th)[2] * geom.tile_size + th[2]) * geom.image_width
    + BlockOf(th)[3] * geom.tile_size + th[3]

\* the position of a block's tile in the [C, tile_height, tile_width] table
TileOf(blk) == (blk[1] * geom.tile_height + blk[2]) * geom.tile_width + blk[3]
RangeLo(blk) == tile_offsets[TileOf(blk)]
RangeHi(blk) ==
    IF TileOf(blk) + 1 < NumTiles(geom) THEN tile_offsets[TileOf(blk) + 1] ELSE n_isects
RangeOf(blk) == RangeLo(blk) .. RangeHi(blk) - 1

\* round(x * y / FxOne), the sign apart
RefMul(x, y) ==
    LET ax == IF x < 0 THEN -x ELSE x
        ay == IF y < 0 THEN -y ELSE y
        r == 1000
        lo == (ax % r) * (ay % r) + FxOne \div 2
        mid == (ax \div r) * (ay % r) + (ax % r) * (ay \div r)
        m == (ax \div r) * (ay \div r) + (mid + lo \div r) \div r
    IN  IF (x < 0) = (y < 0) THEN m ELSE -m

\* alpha of record g at the pixel of th; -1 when the record is skipped there
RefAlpha(g, th) ==
    LET dx == means2d[g + 1][1] - (2 * (BlockOf(th)[3] * geom.tile_size + th[3]) + 1)
        dy == means2d[g + 1][2] - (2 * (BlockOf(th)[2] * geom.tile_size + th[2]) + 1)
        s8 == conics[g + 1][1] * dx * dx + conics[g + 1][3] * dy * dy
              + 2 * conics[g + 1][2] * dx * dy
        e  == IF s8 \div 4 >= Len(ExpTable) THEN 0 ELSE ExpTable[s8 \div 4 + 1]
        a  == RefMul(opacities[g + 1], e)
    IN  IF s8 < 0 THEN -1
        ELSE IF a > 999 * (FxOne \div 1000) THEN 999 * (FxOne \div 1000)
        ELSE IF 255 * a < FxOne THEN -1
        ELSE a

RefState0 == [T |-> FxOne, color |-> ZeroColor, last |-> 0, n |-> 0, cut |-> FALSE]

\* the fold over positions lo .. hi - 1 of flatten_ids, front to back;
\* cutoff says whether a record that brings T to 1e-4 or less ends the fold
RECURSIVE RefFold(_, _, _, _, _)
RefFold(th, lo, hi, st, cutoff) ==
    IF lo >= hi \/ st.cut THEN st
    ELSE LET g == flatten_ids[lo]
             a == RefAlpha(g, th)
             nT == RefMul(st.T, FxOne - a)
         IN  IF a < 0 THEN RefFold(th, lo + 1, hi, st, cutoff)
             ELSE IF cutoff /\ nT <= FxOne \div 10000 THEN [st EXCEPT !.cut = TRUE]
             ELSE RefFold(th, lo + 1, hi,
                      [T |-> nT,
                       color |-> [k \in Channels |->
                                     st.color[k] + RefMul(colors(g, k), RefMul(a, st.T))],
                       last |-> lo, n |-> st.n + 1, cut |-> FALSE],
                      cutoff)

\* the fold of a thread's whole tile range, with the cut-off and without it
Ref(th) == RefFold(th, RangeLo(BlockOf(th)), RangeHi(BlockOf(th)), RefState0, TRUE)
RefNoCut(th) == RefFold(th, RangeLo(BlockOf(th)), RangeHi(BlockOf(th)), RefState0, FALSE)

\* the colour a pixel ends with, given the fold's result
RefColor(th, st) ==
    [k \in Channels |->
        IF has_backgrounds
        THEN st.color[k] + RefMul(st.T, backgrounds(BlockOf(th)[1], k))
        ELSE st.color[k]]

\* the thread has stored its pixel
Written(th) == pc[th] = "exit" /\ InImage(th)

\* every thread of every block has returned
KernelDone == \A th \in Threads : pc[th] = "exit"

\* the kernel has completed and th is the thread of a pixel: what the outputs
\* hold at that pixel is what the caller receives
Delivered(th) == KernelDone /\ InImage(th)

----------------------------------------------------------------------------
(* Properties of the forward compositing kernel *)

\* C1: a pixel inside the image for which no record of its tile's range
\* passes the alpha and transmittance checks (an empty range included) is
\* written with coverage 0, with the camera's background in every channel
\* (0 in every channel when there is no background) and with last id 0.
C1_NoContributorPixel ==
    \A th \in Threads :
        Delivered(th) /\ Ref(th).n = 0 =>
            /\ render_alphas[PixelOf(th)] = 0
            /\ \A k \in Channels :
                  render_colors[PixelOf(th)][k] =
                      IF has_backgrounds THEN backgrounds(BlockOf(th)[1], k) ELSE 0
            /\ last_ids[PixelOf(th)] = 0

\* C1 witness: a written pixel of a non-empty range in which every record is
\* skipped, with a background supplied
C1_Witness ==
    \E th \in Threads :
        /\ Delivered(th) /\ Ref(th).n = 0 /\ has_backgrounds
        /\ RangeHi(BlockOf(th)) - RangeLo(BlockOf(th)) >= 2

\* C2: the colour written to a pixel is the front-to-back fold over the
\* tile's range in index order, sum of color_i * alpha_i * T_i with T_i the
\* transmittance before record i, plus T_final * background when a
\* background is supplied; the coverage written is 1 - T_final.
C2_ColorIsFold ==
    \A th \in Threads :
        Delivered(th) =>
            LET ref == Ref(th)
            IN  /\ render_colors[PixelOf(th)] = RefColor(th, ref)
                /\ render_alphas[PixelOf(th)] = FxOne - ref.T

\* C2 witness: a written pixel with two contributing records, a background,
\* and a range that goes on after the cut-off
C2_Witness ==
    \E th \in Threads :
        /\ Delivered(th) /\ has_backgrounds
        /\ Ref(th).n >= 2 /\ Ref(th).cut

\* C3: the running transmittance stays in [0, 1], and so does every
\* coverage written.
C3_TransmittanceInUnitInterval ==
    /\ \A th \in Threads : 0 <= T[th] /\ T[th] <= FxOne
    /\ \A th \in Threads :
          Written(th) => render_alphas[PixelOf(th)] \in 0 .. FxOne

\* C3 witness: a written pixel whose range holds a record with opacity above
\* 1 and three contributing records
C3_Witness ==
    \E th \in Threads :
        /\ Delivered(th) /\ Ref(th).n >= 3
        /\ \E pos \in RangeOf(BlockOf(th)) : opacities[flatten_ids[pos] + 1] > FxOne

\* C4: the transmittance of a thread never increases from one step to the
\* next, within a batch and across batches.
C4_TransmittanceNonIncreasing ==
    [][\A th \in Threads : T'[th] <= T[th]]_vars

\* C4 witness: a thread in its third batch whose transmittance has dropped
\* twice
C4_Witness ==
    \E th \in Threads :
        /\ b[th] >= 2 /\ pc[th] = "consume"
        /\ T[th] < FxOne /\ Ref(th).n >= 2 /\ T[th] > Ref(th).T

\* C5 (as claimed): with the cut-off and without it, the colour and the
\* coverage of a pixel differ by less than 1e-3.
C5_EarlyExitWithinThousandth ==
    \A th \in Threads :
        Delivered(th) =>
            LET all == RefNoCut(th)
                colAll == RefColor(th, all)
            IN  /\ Abs(render_alphas[PixelOf(th)] - (FxOne - all.T)) < FxOne \div 1000
                /\ \A k \in Channels :
                      Abs(render_colors[PixelOf(th)][k] - colAll[k]) < FxOne \div 1000

\* what the cut-off can leave uncomposited: 1e-4 / (1 - 0.999) = 0.1, and the
\* rounding of the product that is compared with 1e-4
C5_Tolerance == FxOne \div 10 + FxOne \div 1000

\* C5 (amended): with the cut-off the coverage is never above the coverage
\* without it, and the two differ by at most the transmittance left when the
\* cut-off fires, which is at most 0.101; each colour channel differs by at
\* most that much (colours and backgrounds being in [0, 1]).  When the
\* cut-off does not fire the two agree.
C5_EarlyExitWithinTenth ==
    \A th \in Threads :
        Delivered(th) =>
            LET cov == render_alphas[PixelOf(th)]
                all == RefNoCut(th)
                covAll == FxOne - all.T
                colAll == RefColor(th, all)
            IN  /\ cov <= covAll
                /\ covAll - cov <= C5_Tolerance
                /\ \A k \in Channels :
                      Abs(render_colors[PixelOf(th)][k] - colAll[k]) <= C5_Tolerance
                /\ ~Ref(th).cut =>
                      /\ cov = covAll
                      /\ render_colors[PixelOf(th)] = colAll

\* C5 witness: a written pixel where the cut-off fired with more than 1e-3
\* of transmittance left, and a background
C5_Witness ==
    \E th \in Threads :
        /\ Delivered(th) /\ Ref(th).cut /\ has_backgrounds
        /\ FxOne - render_alphas[PixelOf(th)] > FxOne \div 20

\* two written pixels at the same image position (of two cameras) whose
\* ranges hold the same two records, both above the alpha threshold there,
\* in opposite orders
ReversedPair(th1, th2) ==
    /\ Delivered(th1) /\ Delivered(th2)
    /\ th1[2] = th2[2] /\ th1[3] = th2[3]
    /\ BlockOf(th1)[2] = BlockOf(th2)[2] /\ BlockOf(th1)[3] = BlockOf(th2)[3]
    /\ RangeHi(BlockOf(th1)) - RangeLo(BlockOf(th1)) = 2
    /\ RangeHi(BlockOf(th2)) - RangeLo(BlockOf(th2)) = 2
    /\ flatten_ids[RangeLo(BlockOf(th1))] = flatten_ids[RangeLo(BlockOf(th2)) + 1]
    /\ flatten_ids[RangeLo(BlockOf(th1)) + 1] = flatten_ids[RangeLo(BlockOf(th2))]
    /\ flatten_ids[RangeLo(BlockOf(th1))] # flatten_ids[RangeLo(BlockOf(th1)) + 1]
    /\ RefAlpha(flatten_ids[RangeLo(BlockOf(th1))], th1) >= 0
    /\ RefAlpha(flatten_ids[RangeLo(BlockOf(th1)) + 1], th1) >= 0

\* the colour of the pixel without the background term
Composited(th) ==
    [k \in Channels |->
        render_colors[PixelOf(th)][k]
        - (IF has_backgrounds
           THEN RefMul(FxOne - render_alphas[PixelOf(th)], backgrounds(BlockOf(th)[1], k))
           ELSE 0)]

\* C6 (as claimed): reversing the order of two records that both pass the
\* alpha threshold at a pixel changes the composited colour of the pixel.
C6_ReversalChangesColor ==
    \A th1 \in {th \in Threads : Delivered(th)} : \A th2 \in Threads :
        ReversedPair(th1, th2) => Composited(th1) # Composited(th2)

\* rounding allowance of the four products of a two-record fold
C6_Rounding == 4 * (FxOne \div (FxRoot * FxRoot))

\* C6 (amended): when neither of the two records triggers the cut-off, the
\* pixel with records g, h in this order and the pixel with h, g differ in
\* channel k by alpha_g * alpha_h * (color_g[k] - color_h[k]), up to rounding:
\* the colour changes in every channel where the two colours differ by more
\* than rounding, and it does not change where they are equal.
C6_ReversalChangesColorByProduct ==
    \A th1 \in {th \in Threads : Delivered(th)} : \A th2 \in Threads :
        ReversedPair(th1, th2) /\ ~Ref(th1).cut /\ ~Ref(th2).cut =>
            LET g == flatten_ids[RangeLo(BlockOf(th1))]
                h == flatten_ids[RangeLo(BlockOf(th1)) + 1]
                ag == RefAlpha(g, th1)
                ah == RefAlpha(h, th1)
            IN  \A k \in Channels :
                    LET d == RefMul(RefMul(ag, ah), colors(g, k) - colors(h, k))
                        got == Composited(th1)[k] - Composited(th2)[k]
                    IN  /\ Abs(got - d) <= C6_Rounding
                        /\ Abs(d) > C6_Rounding => got # 0
                        /\ colors(g, k) = colors(h, k) => Abs(got) <= C6_Rounding

\* C6 witness: a reversed pair without cut-off whose records differ in colour
C6_Witness ==
    \E th1, th2 \in Threads :
        /\ ReversedPair(th1, th2) /\ ~Ref(th1).cut /\ ~Ref(th2).cut
        /\ \E k \in Channels :
              colors(flatten_ids[RangeLo(BlockOf(th1))], k)
                  # colors(flatten_ids[RangeLo(BlockOf(th1)) + 1], k)

\* C7: for a written pixel with a contributing record, the last id written
\* is the position in flatten_ids (not the record id stored there) of the
\* last record that passed the alpha check and the transmittance check; it
\* lies in the tile's range, and it is never the record that triggered the
\* cut-off.
C7_LastIdIsPosition ==
    \A th \in Threads :
        Delivered(th) =>
            LET last == last_ids[PixelOf(th)]
                ref == Ref(th)
                upto == RefFold(th, RangeLo(BlockOf(th)), last, RefState0, TRUE)
            IN  ref.n >= 1 =>
                /\ last = ref.last
                /\ last \in RangeOf(BlockOf(th))
                \* the record at that position passed both checks
                /\ RefAlpha(flatten_ids[last], th) >= 0
                /\ ~upto.cut
                /\ RefMul(upto.T, FxOne - RefAlpha(flatten_ids[last], th))
                       > FxOne \div 10000
                \* and no record after it contributed
                /\ \A pos \in RangeOf(BlockOf(th)) :
                      pos > last /\ RefAlpha(flatten_ids[pos], th) >= 0 => ref.cut

\* C7 witness: a written pixel whose range does not start at 0, where the
\* cut-off fired, and whose last id differs from the record id stored there
C7_Witness ==
    \E th \in Threads :
        /\ Delivered(th) /\ Ref(th).n >= 2 /\ Ref(th).cut
        /\ RangeLo(BlockOf(th)) > 0
        /\ last_ids[PixelOf(th)] # flatten_ids[last_ids[PixelOf(th)]]
        /\ last_ids[PixelOf(th)] + 1 < RangeHi(BlockOf(th))

\* C8: the coverage written to a pixel is 0 exactly when no record
\* contributed to it; so a last id of 0 means "no contributor" exactly when
\* the coverage is 0, and "the record at position 0 contributed last" exactly
\* when the coverage is positive.
C8_ZeroCoverageIffNoContributor ==
    \A th \in Threads :
        Delivered(th) =>
            LET ref == Ref(th)
            IN  /\ render_alphas[PixelOf(th)] = 0 <=> ref.n = 0
                /\ last_ids[PixelOf(th)] = 0 =>
                      /\ render_alphas[PixelOf(th)] = 0 <=> ref.n = 0
                      /\ render_alphas[PixelOf(th)] > 0 <=> (ref.n >= 1 /\ ref.last = 0)

\* C8 witness: two written pixels with last id 0, one without a contributor
\* and one whose contributor is the record at position 0
C8_Witness ==
    \E th1, th2 \in Threads :
        /\ Delivered(th1) /\ Delivered(th2)
        /\ last_ids[PixelOf(th1)] = 0 /\ last_ids[PixelOf(th2)] = 0
        /\ render_alphas[PixelOf(th1)] = 0
        /\ RangeHi(BlockOf(th1)) > RangeLo(BlockOf(th1))
        /\ render_alphas[PixelOf(th2)] > 0

\* the tile grid covers the image
GridCoversImage ==
    /\ geom.tile_width * geom.tile_size >= geom.image_width
    /\ geom.tile_height * geom.tile_size >= geom.image_height

\* C9: no output element is stored to twice and nothing is stored outside
\* the output buffers; a thread whose pixel lies outside the image never
\* stores; the stores to a pixel are those of the one thread that owns it;
\* and when the tile grid covers the image, every pixel of every camera has
\* been stored to exactly once when the kernel completes.
C9_EveryPixelWrittenOnce ==
    /\ oob_writes = 0
    /\ \A th \in Threads :
          IF InImage(th)
          THEN nwrites[PixelOf(th)] = IF Written(th) THEN 1 ELSE 0
          ELSE pc[th] # "final"
    /\ \A p \in 0 .. NumPixels(geom) - 1 :
          /\ nwrites[p] <= 1
          /\ nwrites[p] = 1 => \E th \in Threads : Written(th) /\ PixelOf(th) = p
          /\ nwrites[p] = 0 =>
                /\ render_alphas[p] = UNWRITTEN
                /\ last_ids[p] = UNWRITTEN
                /\ \A k \in Channels : render_colors[p][k] = UNWRITTEN
          /\ nwrites[p] = 1 =>
                /\ render_alphas[p] # UNWRITTEN
                /\ last_ids[p] # UNWRITTEN
                /\ \A k \in Channels : render_colors[p][k] # UNWRITTEN
          /\ KernelDone /\ GridCoversImage => nwrites[p] = 1

\* C9 witness: the kernel has completed on a covering grid that has threads
\* outside the image and more than one block
C9_Witness ==
    /\ KernelDone /\ GridCoversImage
    /\ \E th \in Threads : ~InImage(th)
    /\ Cardinality(Blocks) >= 2
    /\ \A p \in 0 .. NumPixels(geom) - 1 : nwrites[p] = 1

----------------------------------------------------------------------------
(* Properties of the host entry point *)

\* the channel counts the interface documents
DocumentedChannels ==
    {1, 2, 3, 4, 5, 8, 9, 16, 17, 32, 33, 64, 65, 128, 129, 256, 257, 512, 513}

\* no thread of the kernel has run and no output element has been stored to
NothingExecuted ==
    /\ \A th \in Threads : pc[th] = "start"
    /\ \A p \in 0 .. NumPixels(geom) - 1 :
          /\ nwrites[p] = 0
          /\ render_alphas[p] = UNWRITTEN
          /\ last_ids[p] = UNWRITTEN
          /\ \A k \in Channels : render_colors[p][k] = UNWRITTEN
    /\ oob_writes = 0

\* C10 (as claimed): once the call has ended (its inputs passing the input
\* checks), the kernel has been launched if and only if the channel count is
\* a documented one.
C10_LaunchIffSupported ==
    host_pc # "call" /\ inputs_ok => (launched <=> channels \in DocumentedChannels)

\* C10 (amended): the kernel is launched if and only if the inputs pass the
\* input checks, the channel count is a documented one and the device accepts
\* the shared-memory size.  For any other channel count the call (its inputs
\* passing the input checks) raises the unsupported-channels error, returns
\* nothing, and no kernel thread ever runs and no output element is stored to.
C10_LaunchIffSupportedAndAccepted ==
    /\ host_pc # "call" =>
          (launched <=> /\ inputs_ok
                        /\ channels \in DocumentedChannels
                        /\ shared_mem <= device_limit)
    /\ launched => channels \in DocumentedChannels
    /\ host_pc # "call" /\ inputs_ok /\ channels \notin DocumentedChannels =>
          /\ host_error = "unsupported_channels"
          /\ host_pc = "error"
          /\ ~launched
    /\ ~launched => NothingExecuted
    /\ host_pc = "returned" <=> launched

\* C10 witness: the call has ended with the unsupported-channels error for 7
\* channels on a device that would have accepted the shared-memory size
C10_Witness ==
    /\ host_pc = "error" /\ channels = 7 /\ inputs_ok
    /\ shared_mem <= device_limit
    /\ host_error = "unsupported_channels"

\* C11: for every documented channel count the shared working-set size,
\* tile_size * tile_size * (4 + 2 * 12) bytes, is put to the device before the
\* launch: when the device rejects it the call ends with the error that
\* suggests lowering tile_size, the kernel is never launched, nothing is
\* returned and no kernel thread runs; a launched kernel's size was accepted.
C11_SharedSizeValidatedBeforeLaunch ==
    LET size == geom.tile_size * geom.tile_size * (4 + 2 * 12)
    IN  /\ host_pc # "call" /\ inputs_ok /\ channels \in DocumentedChannels
             /\ size > device_limit =>
                /\ host_error = "shared_memory"
                /\ host_pc = "error"
                /\ ~launched
                /\ NothingExecuted
        /\ launched => size <= device_limit
        /\ host_error = "shared_memory" => size > device_limit

\* C11 witness: the call has ended with the shared-memory error for the
\* largest documented channel count
C11_Witness ==
    /\ host_pc = "error" /\ host_error = "shared_memory"
    /\ channels = 513 /\ inputs_ok
    /\ geom.tile_size = 2

----------------------------------------------------------------------------
(* Projection backward: reference definitions *)

\* every thread of the grid has left the kernel
BwdDone == bwd_launched /\ \A idx \in KThreads : kpc[idx] = "exit"

\* the records that carry the id l in the column label
RecordsOf(label, l) == {idx \in 0 .. nnz - 1 : label[idx] = l}

\* The values a float summation of val over the records of S can give, every
\* record added exactly once, whatever the order and grouping of the
\* additions; the empty sum is 0.
RECURSIVE FloatSums(_, _)
FloatSums(S, val) ==
    IF S = {} THEN {0}
    ELSE IF \E i \in S : S = {i} THEN {val[i] : i \in S}
    ELSE UNION {{RoundFloat(x + y) : x \in FloatSums(P, val),
                                     y \in FloatSums(S \ P, val)} :
                   P \in (SUBSET S) \ {{}, S}}

\* the gradient f that the thread of a record computes from the record alone
Local(f) == [idx \in 0 .. nnz - 1 |-> LocalGradients(idx, 0)[f]]

----------------------------------------------------------------------------
(* Projection backward: the dense accumulation *)

\* C12: in the dense layout, once the kernel has completed, the row of each
\* primitive g in the mean gradient, and in the covariance gradient or the
\* quaternion and scale gradients, is a sum of the locally computed gradients
\* of exactly the records whose primitive id is g, each counted once; this
\* holds in every interleaving and for every placement of the records in
\* warps.
C12_DenseRowsSumTheirRecords ==
    BwdDone /\ ~sparse_grad =>
        \A g \in 0 .. N - 1 :
            LET S == RecordsOf(gaussian_ids, g)
            IN  /\ v_means[g] \in FloatSums(S, Local("v_mean"))
                /\ IF has_covars
                   THEN v_covars[g] \in FloatSums(S, Local("v_covar"))
                   ELSE /\ v_quats[g] \in FloatSums(S, Local("v_quat"))
                        /\ v_scales[g] \in FloatSums(S, Local("v_scale"))

\* three records of one primitive, two in one warp and one in another, have
\* been summed into its row
C12_Witness ==
    /\ BwdDone /\ ~sparse_grad /\ nnz = 3
    /\ \A idx \in 0 .. nnz - 1 : gaussian_ids[idx] = 0 /\ v_depths[idx] = 1
    /\ v_means[0] = 3 /\ v_means[1] = 0

----------------------------------------------------------------------------
(* Projection backward: the dense layout against the sparse layout *)

\* the sum of val over the records of S in exact arithmetic
RECURSIVE ExactSum(_, _)
ExactSum(S, val) ==
    IF S = {} THEN 0
    ELSE LET i == CHOOSE j \in S : TRUE
         IN  val[i] + ExactSum(S \ {i}, val)

\* every partial sum of the non-negative values of S is a float
SumsExactly(S, val) == ExactSum(S, val) <= 2 ^ FLT_MANT_DIG

\* the sparse layout, completed, holds in row idx the gradients the thread of
\* record idx computed
SparseRowsAreLocal ==
    BwdDone /\ sparse_grad =>
        \A idx \in 0 .. nnz - 1 :
            /\ v_means[idx] = Local("v_mean")[idx]
            /\ IF has_covars
               THEN v_covars[idx] = Local("v_covar")[idx]
               ELSE /\ v_quats[idx] = Local("v_quat")[idx]
                    /\ v_scales[idx] = Local("v_scale")[idx]

----------------------------------------------------------------------------
(* Projection backward: the camera gradients *)

\* C14: when the camera gradients are requested, in the sparse and in the
\* dense layout alike, once the kernel has completed the rotation and the
\* translation gradient of each camera c are sums of the rotation and
\* translation gradients of exactly the records whose camera id is c, each
\* counted once.
C14_CameraRowsSumTheirRecords ==
    BwdDone /\ viewmats_requires_grad =>
        \A c \in 0 .. C - 1 :
            LET S == RecordsOf(camera_ids, c)
            IN  /\ v_viewmats[c].R \in FloatSums(S, Local("v_R"))
                /\ v_viewmats[c].t \in FloatSums(S, Local("v_t"))

\* in the sparse layout, three records of one camera, two in one warp and one
\* in another, have been summed into the camera's entries
C14_Witness ==
    /\ BwdDone /\ viewmats_requires_grad /\ sparse_grad /\ nnz = 3
    /\ \A idx \in 0 .. nnz - 1 : camera_ids[idx] = 0 /\ v_depths[idx] = 1
    /\ v_viewmats[0] = [R |-> 3, t |-> 6]
    /\ v_viewmats[1] = ZeroMat
    /\ \E idx \in 0 .. nnz - 1 : gaussian_ids[idx] = 1

----------------------------------------------------------------------------
(* Projection backward: the sparse layout *)

\* the rows of a primitive-gradient buffer of the sparse layout
SparseBuffer(name) ==
    IF name = "v_means" THEN v_means
    ELSE IF name = "v_covars" THEN v_covars
    ELSE IF name = "v_quats" THEN v_quats
    ELSE v_scales
LocalOf(name) ==
    IF name = "v_means" THEN Local("v_mean")
    ELSE IF name = "v_covars" THEN Local("v_covar")
    ELSE IF name = "v_quats" THEN Local("v_quat")
    ELSE Local("v_scale")

\* C15: in the sparse layout the thread of record idx stores to row idx of
\* the mean gradient and of the covariance or quaternion and scale gradients
\* and to no other row; the stores are plain, so a stored row holds the
\* thread's own gradient; no row is stored to by two threads.
C15_SparseRowsHaveOneWriter ==
    bwd_launched /\ sparse_grad =>
        \A name \in PrimitiveBuffers :
            /\ DOMAIN SparseBuffer(name) = 0 .. nnz - 1
            /\ \A row \in 0 .. nnz - 1 :
                  /\ writers[name][row] \subseteq {row}
                  /\ writers[name][row] = {row} <=> kpc[row] # "start"
                  /\ SparseBuffer(name)[row] =
                        IF writers[name][row] = {} THEN 0 ELSE LocalOf(name)[row]

\* three records of one primitive have each been stored to their own row
C15_Witness ==
    /\ BwdDone /\ sparse_grad /\ nnz = 3
    /\ \A idx \in 0 .. nnz - 1 : gaussian_ids[idx] = 0
    /\ \A name \in PrimitiveBuffers :
          \A row \in 0 .. nnz - 1 : writers[name][row] = {row}
    /\ v_means = [idx \in 0 .. nnz - 1 |-> v_depths[idx]]

----------------------------------------------------------------------------
(* Projection backward: the optional inputs *)

\* a compensation gradient without the forward compensation, or neither the
\* covariances nor the quaternions with the scales
MismatchedOptionals ==
    \/ has_v_compensations /\ ~has_compensations
    \/ ~has_covars /\ ~(has_quats /\ has_scales)

\* no gradient has been allocated and no thread of the kernel has run
NothingDispatched ==
    /\ ~bwd_launched
    /\ bwdGrads = <<NoTensor, NoTensor, NoTensor, NoTensor, NoTensor, NoTensor>>
    /\ \A idx \in KThreads : kpc[idx] = "start"

\* C16: a call with mismatched optional inputs fails before the kernel is
\* launched: it does not return, no gradient is handed back, and no thread
\* reads an input that is missing.
C16_MismatchFailsBeforeDispatch ==
    /\ bwd_pc # "call" /\ MismatchedOptionals =>
          /\ bwd_pc \in {"check_input", "aborted", "bad_optional_access"}
          /\ NothingDispatched
    /\ null_reads = {}

\* asserts compiled out, a compensation gradient without the forward
\* compensation: the call has returned its gradients, the kernel runs, and a
\* thread has read compensations[idx] through the null pointer
C16_Witness ==
    /\ ndebug /\ has_v_compensations /\ ~has_compensations
    /\ bwd_pc = "returned" /\ bwd_launched
    /\ v_means # NoTensor
    /\ null_reads # {}

----------------------------------------------------------------------------
(* Projection backward: the returned gradients *)

AllZero(buf) == \A r \in DOMAIN buf : buf[r] = 0
AllZeroMats(buf) == \A c \in DOMAIN buf : buf[c] = [R |-> 0, t |-> 0]
RowsOfLayout == IF sparse_grad THEN 0 .. nnz - 1 ELSE 0 .. N - 1

\* C17: the gradients of a call that returns have one row per record in the
\* sparse layout and one row per primitive in the dense layout, and one
\* entry per camera when the camera gradients are requested; they are zero
\* before any thread of the kernel has run; in the dense layout the row of a
\* primitive, and the entry of a camera, that no record refers to stays
\* zero; with no record no kernel is launched and every gradient is zero.
C17_GradientsZeroedAndSized ==
    bwd_pc = "returned" =>
        /\ DOMAIN v_means = RowsOfLayout
        /\ IF has_covars
           THEN DOMAIN v_covars = RowsOfLayout /\ v_quats = <<>> /\ v_scales = <<>>
           ELSE /\ DOMAIN v_quats = RowsOfLayout /\ DOMAIN v_scales = RowsOfLayout
                /\ v_covars = <<>>
        /\ IF viewmats_requires_grad THEN DOMAIN v_viewmats = 0 .. C - 1
           ELSE v_viewmats = <<>>
        /\ (\A idx \in KThreads : kpc[idx] = "start") =>
              /\ AllZero(v_means) /\ AllZero(v_covars) /\ AllZero(v_quats)
              /\ AllZero(v_scales) /\ AllZeroMats(v_viewmats)
        /\ ~sparse_grad =>
              \A g \in 0 .. N - 1 :
                  (\A idx \in 0 .. nnz - 1 : gaussian_ids[idx] # g) =>
                      /\ v_means[g] = 0
                      /\ has_covars => v_covars[g] = 0
                      /\ ~has_covars => v_quats[g] = 0 /\ v_scales[g] = 0
        /\ viewmats_requires_grad =>
              \A c \in 0 .. C - 1 :
                  (\A idx \in 0 .. nnz - 1 : camera_ids[idx] # c) =>
                      v_viewmats[c] = [R |-> 0, t |-> 0]
        /\ bwd_launched <=> nnz > 0
        /\ nnz = 0 =>
              /\ KThreads = {}
              /\ AllZero(v_means) /\ AllZero(v_covars) /\ AllZero(v_quats)
              /\ AllZero(v_scales) /\ AllZeroMats(v_viewmats)

\* a dense call has returned and its kernel has completed: primitive 0 and
\* camera 0 hold the sums of two records, primitive 1 and camera 1 are zero
C17_Witness ==
    /\ bwd_pc = "returned" /\ BwdDone /\ ~sparse_grad /\ viewmats_requires_grad
    /\ nnz = 2 /\ has_covars
    /\ \A idx \in 0 .. nnz - 1 : gaussian_ids[idx] = 0 /\ camera_ids[idx] = 0
    /\ v_means = [g \in 0 .. N - 1 |-> IF g = 0 THEN 2 ELSE 0]
    /\ v_covars = [g \in 0 .. N - 1 |-> IF g = 0 THEN 4 ELSE 0]
    /\ v_viewmats[1] = [R |-> 0, t |-> 0] /\ v_viewmats[0] # [R |-> 0, t |-> 0]

----------------------------------------------------------------------------
(* Forward compositor: the shared batch *)

\* what a slot of the shared batch holds once the record at position p of
\* flatten_ids has been fetched into it
SlotOfRecord(p) ==
    [id         |-> flatten_ids[p],
     xy_opacity |-> <<means2d[flatten_ids[p] + 1][1], means2d[flatten_ids[p] + 1][2],
                      opacities[flatten_ids[p] + 1]>>,
     conic      |-> conics[flatten_ids[p] + 1]]
SlotContents(blk, s) ==
    [id |-> id_batch[blk][s], xy_opacity |-> xy_opacity_batch[blk][s],
     conic |-> conic_batch[blk][s]]

\* the position in flatten_ids of slot s of batch bb of a block
PositionOf(blk, bb, s) == RangeLo(blk) + bb * geom.tile_size * geom.tile_size + s

\* C18: while a thread consumes batch b, slot t and every later slot of the
\* batch that it has still to read hold the records at positions
\* range_start + b * block_size + slot, in every interleaving; and no thread
\* of its block is fetching a batch meanwhile.
C18_SlotHoldsRecordOfBatch ==
    \A th \in Threads :
        pc[th] = "consume" =>
            LET blk == BlockOf(th)
            IN  /\ PositionOf(blk, b[th], t[th]) < RangeHi(blk)
                /\ \A s \in t[th] .. geom.tile_size * geom.tile_size - 1 :
                      PositionOf(blk, b[th], s) < RangeHi(blk) =>
                          SlotContents(blk, s) = SlotOfRecord(PositionOf(blk, b[th], s))
                /\ \A th2 \in ThreadsIn(blk) : pc[th2] \notin {"load", "sync"}

\* the two threads that own a pixel are about to read a slot of the second
\* batch whose record differs from the one the slot held in the first batch
C18_Witness ==
    \E th \in Threads : \E th2 \in ThreadsIn(BlockOf(th)) :
        /\ th2 # th
        /\ pc[th] = "consume" /\ b[th] = 1
        /\ pc[th2] = "consume" /\ b[th2] = 1
        /\ flatten_ids[PositionOf(BlockOf(th), 1, t[th])]
              # flatten_ids[PositionOf(BlockOf(th), 0, t[th])]

----------------------------------------------------------------------------
(* Forward compositor: the group-wide early exit *)

\* a batch boundary of a block: batches remain and every thread of the block
\* waits for the count of the done threads
AtBoundary(blk) == \A th \in ThreadsIn(blk) : pc[th] = "vote"
\* every thread of the block that owns a pixel is done
AllUnitsDone(blk) == \A th \in ThreadsIn(blk) : InImage(th) => done[th]
LeftLoop(th) == pc[th] \in {"final", "exit"}
SlotOfThread(th) == th[2] * geom.tile_size + th[3]

\* C19: threads outside the image are done from the start.  At a batch
\* boundary where every thread of the block is done, all its threads leave
\* the batch loop, and a thread that has left the loop fetches nothing more.
\* At a batch boundary where a thread that owns a pixel is not done, every
\* thread of the block, the done ones and those outside the image included,
\* goes on to fetch, and its fetch puts the record of its position into its
\* slot whenever the position lies in the tile's range.
C19_GroupWideEarlyExit ==
    /\ [](\A th \in Threads :
             /\ pc[th] # "start" /\ ~InImage(th) => done[th]
             /\ pc[th] \in {"load", "sync"} => ~AllUnitsDone(BlockOf(th)))
    /\ [][\A blk \in Blocks :
             /\ AtBoundary(blk) =>
                   IF AllUnitsDone(blk)
                   THEN \A th \in ThreadsIn(blk) : LeftLoop(th)'
                   ELSE \A th \in ThreadsIn(blk) : pc'[th] = "load"
             /\ \A th \in ThreadsIn(blk) :
                   /\ LeftLoop(th) => LeftLoop(th)'
                   /\ (\E th2 \in ThreadsIn(blk) : LeftLoop(th2)) =>
                         SlotContents(blk, SlotOfThread(th))'
                            = SlotContents(blk, SlotOfThread(th))
                   /\ pc[th] = "load" /\ pc'[th] # "load" =>
                         /\ pc'[th] = "sync"
                         /\ PositionOf(blk, b[th], SlotOfThread(th)) < RangeHi(blk) =>
                               SlotContents(blk, SlotOfThread(th))'
                                  = SlotOfRecord(PositionOf(blk, b[th], SlotOfThread(th)))]_vars

\* every thread of a block was done at the boundary after the first of two
\* batches: the block has left the loop and slot 0 still holds the record of
\* the first batch
C19_Witness ==
    \E blk \in Blocks :
        /\ RangeHi(blk) - RangeLo(blk) > geom.tile_size * geom.tile_size
        /\ \A th \in ThreadsIn(blk) : LeftLoop(th) /\ done[th] /\ b[th] <= 1
        /\ \E th \in ThreadsIn(blk) : InImage(th) /\ b[th] = 1
        /\ id_batch[blk][0] = flatten_ids[PositionOf(blk, 0, 0)]
        /\ flatten_ids[PositionOf(blk, 0, 0)] # flatten_ids[PositionOf(blk, 1, 0)]

----------------------------------------------------------------------------
(* Forward compositor: the order of evaluation *)

\* The done point of a thread's pixel: the position of the first record of
\* the tile's range that brings the pixel's transmittance to 1e-4 or less,
\* or the end of the range when there is none.
RECURSIVE RefDonePoint(_, _, _, _)
RefDonePoint(th, lo, hi, TT) ==
    IF lo >= hi THEN hi
    ELSE LET a == RefAlpha(flatten_ids[lo], th)
             nT == RefMul(TT, FxOne - a)
         IN  IF a < 0 THEN RefDonePoint(th, lo + 1, hi, TT)
             ELSE IF nT <= FxOne \div 10000 THEN lo
             ELSE RefDonePoint(th, lo + 1, hi, nT)
DonePoint(th) == RefDonePoint(th, RangeLo(BlockOf(th)), RangeHi(BlockOf(th)), FxOne)

\* the positions lo, lo + 1, ..., lo + n - 1
Consecutive(lo, n) == [i \in 1 .. n |-> lo + i - 1]

\* C20: the records a thread has evaluated are those of consecutive,
\* increasing positions from the start of its tile's range, each once, none
\* outside the range and none behind the done point of its pixel; a thread
\* outside the image evaluates none; a thread that has left the batch loop
\* has evaluated every record of the range up to the done point.
C20_EvaluatesInOrderUpToDonePoint ==
    \A th \in Threads :
        LET lo == RangeLo(BlockOf(th))
            hi == RangeHi(BlockOf(th))
            stop == DonePoint(th)
            n == Len(evaluated[th])
        IN  /\ evaluated[th] = Consecutive(lo, n)
            /\ lo + n <= hi
            /\ n > 0 => lo + n <= stop + 1
            /\ ~InImage(th) => n = 0
            /\ InImage(th) /\ pc[th] \in {"final", "exit"} =>
                  lo + n = IF stop < hi THEN stop + 1 ELSE hi

\* a thread has evaluated the four records of the first batch and the first
\* of the second, where its pixel is done, and has left the loop; the
\* other pixel of the block was done within the first batch
C20_Witness ==
    \E th \in Threads : \E th2 \in ThreadsIn(BlockOf(th)) :
        /\ InImage(th) /\ InImage(th2)
        /\ pc[th] \in {"final", "exit"} /\ pc[th2] \in {"final", "exit"}
        /\ RangeLo(BlockOf(th)) = 1
        /\ evaluated[th] = <<1, 2, 3, 4, 5>> /\ DonePoint(th) = 5
        /\ Len(evaluated[th2]) < geom.tile_size * geom.tile_size

----------------------------------------------------------------------------
(* Forward compositor: termination *)

AtBarrier(th) == pc[th] \in {"vote", "sync"}
AllExited == \A th \in Threads : pc[th] = "exit"

\* An upper bound on the steps a thread has still to take: the batches left,
\* each of a vote, a load, a barrier and at most block_size records, and the
\* store of the pixel.
StepsPerBatch == geom.tile_size * geom.tile_size + 3
StepsLeft(th) ==
    LET left == (RangeHi(BlockOf(th)) - RangeLo(BlockOf(th))
                    + geom.tile_size * geom.tile_size - 1)
                   \div (geom.tile_size * geom.tile_size) - b[th]
    IN  IF pc[th] = "start" THEN (left + 1) * (StepsPerBatch + 1) + 2
        ELSE IF pc[th] = "vote" THEN left * (StepsPerBatch + 1) + StepsPerBatch
        ELSE IF pc[th] = "load" THEN left * (StepsPerBatch + 1) + StepsPerBatch - 1
        ELSE IF pc[th] = "sync" THEN left * (StepsPerBatch + 1) + StepsPerBatch - 2
        ELSE IF pc[th] = "consume"
        THEN left * (StepsPerBatch + 1) + StepsPerBatch - 3 - t[th]
        ELSE IF pc[th] = "final" THEN 1
        ELSE 0

\* a thread can take a step of its own, a barrier of a block is complete, or
\* a block can become resident
CanStep ==
    \/ \E th \in Threads : pc[th] \in {"load", "consume", "final"}
    \/ \E blk \in Blocks : BarrierComplete(blk, "vote") \/ BarrierComplete(blk, "sync")
    \/ /\ launched
       /\ \A th \in Threads : pc[th] \in {"start", "exit"}
       /\ \E th \in Threads : pc[th] = "start"

\* C21: the kernel runs to completion.  The threads of a block that wait at
\* a barrier are in the same iteration of the batch loop, and while a thread
\* waits at a barrier no thread of its block has left the loop, the threads
\* outside the image and the done threads included; while a thread has not
\* returned some thread or barrier can take a step; every step brings the
\* thread that takes it closer to its return and sets no thread back; and
\* when all threads have returned every pixel of the image has been stored
\* once.
C21_RunsToCompletion ==
    /\ [](\A th \in Threads :
             /\ StepsLeft(th) >= 0
             /\ AtBarrier(th) =>
                   \A th2 \in ThreadsIn(BlockOf(th)) :
                       /\ ~LeftLoop(th2)
                       /\ pc[th2] # "start"
                       /\ AtBarrier(th2) => b[th2] = b[th])
    /\ [](~AllExited => CanStep)
    /\ [](AllExited => \A th \in Threads : InImage(th) => nwrites[PixelOf(th)] = 1)
    /\ [][/\ \A th \in Threads : StepsLeft(th)' <= StepsLeft(th)
          /\ \E th \in Threads : StepsLeft(th)' < StepsLeft(th)]_vars

\* the kernel has completed a launch in which a block ran two batches, one
\* of its pixels being done within the first
C21_Witness ==
    /\ AllExited
    /\ \E th \in Threads : \E th2 \in ThreadsIn(BlockOf(th)) :
          /\ InImage(th) /\ InImage(th2)
          /\ b[th] = 2 /\ Len(evaluated[th]) = MaxIsectsBatch - 1
          /\ done[th2] /\ Len(evaluated[th2]) <= 2
          /\ nwrites[PixelOf(th)] = 1 /\ nwrites[PixelOf(th2)] = 1

----------------------------------------------------------------------------
(* Forward compositor: the steps of a pixel's loop *)

\* the thread evaluates a record in this step, and the position of the record
Evaluates(th) == evaluated'[th] # evaluated[th]
EvaluatedPosition(th) == evaluated'[th][Len(evaluated'[th])]

\* sigma and alpha of the record at position p for the pixel of th, from the
\* record's data and the pixel centre
RefSigma8(p, th) ==
    LET g == flatten_ids[p]
        dx == means2d[g + 1][1] - (2 * (BlockOf(th)[3] * geom.tile_size + th[3]) + 1)
        dy == means2d[g + 1][2] - (2 * (BlockOf(th)[2] * geom.tile_size + th[2]) + 1)
    IN  conics[g + 1][1] * dx * dx + conics[g + 1][3] * dy * dy
        + 2 * conics[g + 1][2] * dx * dy
RefAlphaCapped(p, th) ==
    LET s8 == RefSigma8(p, th)
        e == IF s8 < 0 \/ s8 \div 4 >= Len(ExpTable) THEN 0 ELSE ExpTable[s8 \div 4 + 1]
        a == RefMul(opacities[flatten_ids[p] + 1], e)
    IN  IF a > 999 * (FxOne \div 1000) THEN 999 * (FxOne \div 1000) ELSE a
RefSkipped(p, th) == RefSigma8(p, th) < 0 \/ 255 * RefAlphaCapped(p, th) < FxOne

\* the thread goes on with the record that follows: the next slot of the
\* batch, or the loop test of the next batch
GoesOn(th) ==
    \/ pc'[th] = "consume" /\ b'[th] = b[th] /\ t'[th] = t[th] + 1
    \/ pc'[th] \in {"vote", "final"} /\ b'[th] = b[th] + 1

\* C22: a record whose sigma is negative, or whose alpha is below 1/255,
\* leaves the transmittance, the accumulated colour, the last-contributor
\* index and the done flag of the pixel unchanged, and the thread goes on
\* with the next record.
C22_SkippedRecordChangesNothing ==
    [][\A th \in Threads :
          Evaluates(th) /\ RefSkipped(EvaluatedPosition(th), th) =>
              /\ T'[th] = T[th]
              /\ pix_out'[th] = pix_out[th]
              /\ cur_idx'[th] = cur_idx[th]
              /\ done'[th] = done[th]
              /\ GoesOn(th)]_vars

\* a pixel that has accumulated a record has then evaluated and skipped a
\* record of negative sigma and one of alpha below 1/255
C22_Witness ==
    \E th \in Threads :
        /\ Len(evaluated[th]) = 3
        /\ ~RefSkipped(evaluated[th][1], th)
        /\ RefSigma8(evaluated[th][2], th) < 0
        /\ RefSigma8(evaluated[th][3], th) >= 0 /\ RefSkipped(evaluated[th][3], th)
        /\ cur_idx[th] = evaluated[th][1] /\ T[th] < FxOne /\ ~done[th]

\* the record at position p would bring the transmittance TT of the pixel of
\* th to 1e-4 or less
RefCutsOff(p, th, TT) ==
    /\ ~RefSkipped(p, th)
    /\ RefMul(TT, FxOne - RefAlphaCapped(p, th)) <= FxOne \div 10000

PixelStateKept(th) ==
    /\ T'[th] = T[th]
    /\ pix_out'[th] = pix_out[th]
    /\ cur_idx'[th] = cur_idx[th]

\* C23: a record that would bring the transmittance to 1e-4 or less marks
\* the pixel done and contributes nothing, and no other record marks it
\* done; a done thread evaluates no further record of this batch or of a
\* later one, its transmittance, colour and last-contributor index stay as
\* they are, and it stays done.
C23_CutoffMarksDoneAndFreezes ==
    [][\A th \in Threads :
          /\ Evaluates(th) =>
                IF RefCutsOff(EvaluatedPosition(th), th, T[th])
                THEN done'[th] /\ PixelStateKept(th)
                ELSE ~done'[th]
          /\ done[th] => done'[th] /\ ~Evaluates(th) /\ PixelStateKept(th)]_vars

\* a pixel was marked done within the first batch by a record that left its
\* transmittance above 1e-4, and its thread has since gone through the load
\* and the barrier of the second batch without evaluating a record of it
C23_Witness ==
    \E th \in Threads :
        /\ InImage(th) /\ done[th]
        /\ pc[th] = "final" /\ b[th] = 2
        /\ Len(evaluated[th]) < geom.tile_size * geom.tile_size
        /\ T[th] > FxOne \div 10000
        /\ cur_idx[th] < evaluated[th][Len(evaluated[th])]

----------------------------------------------------------------------------
(* Forward compositor: the range of a tile *)

\* the entry of (camera, tile) in the offset table flattened over
\* [camera, tile row, tile column]
FlatTile(blk) == (blk[1] * geom.tile_height + blk[2]) * geom.tile_width + blk[3]
LastEntry == geom.C * geom.tile_height * geom.tile_width - 1

\* C24: the range of (camera, tile) starts at the tile's entry of the offset
\* table and ends at the next entry of the flattened table, which for the
\* last tile of a camera other than the last is the first tile's entry of
\* the next camera; only the range of the last tile of the last camera ends
\* at n_isects; no entry behind the last is read; and a thread evaluates
\* records of that range only, all of them when its pixel is never done.
C24_RangeFromOffsetTable ==
    /\ \A blk \in Blocks :
          /\ OffsetIndex(blk) = FlatTile(blk)
          /\ OffsetIndex(blk) \in DOMAIN tile_offsets
          /\ range_start(blk) = tile_offsets[FlatTile(blk)]
          /\ IF FlatTile(blk) = LastEntry
             THEN range_end(blk) = n_isects
             ELSE /\ FlatTile(blk) + 1 \in DOMAIN tile_offsets
                  /\ range_end(blk) = tile_offsets[FlatTile(blk) + 1]
    /\ \A th \in Threads :
          /\ \A i \in 1 .. Len(evaluated[th]) :
                /\ evaluated[th][i] >= tile_offsets[FlatTile(BlockOf(th))]
                /\ FlatTile(BlockOf(th)) # LastEntry =>
                      evaluated[th][i] < tile_offsets[FlatTile(BlockOf(th)) + 1]
          /\ pc[th] = "exit" /\ ~done[th] /\ FlatTile(BlockOf(th)) # LastEntry =>
                Len(evaluated[th]) = tile_offsets[FlatTile(BlockOf(th)) + 1]
                                        - tile_offsets[FlatTile(BlockOf(th))]

\* the only tile of the first of two cameras: its thread has evaluated its
\* range, which ends at the entry of the next camera's tile, before n_isects
C24_Witness ==
    \E th \in Threads :
        /\ geom.C = 2 /\ BlockOf(th)[1] = 0
        /\ FlatTile(BlockOf(th)) = geom.tile_height * geom.tile_width - 1
        /\ pc[th] = "exit" /\ ~done[th]
        /\ tile_offsets[1] = 2 /\ n_isects = 4
        /\ evaluated[th] = <<0, 1>>

----------------------------------------------------------------------------
(* Projection backward: who adds to the accumulators *)

\* the accumulators of a call, with the column of ids that labels each: the
\* primitive-gradient buffers of the dense layout, and the camera gradients
\* in either layout
Accumulators ==
    (IF sparse_grad THEN {} ELSE PrimitiveBuffers)
    \cup (IF viewmats_requires_grad THEN {"v_viewmats"} ELSE {})
LabelOf(name) == IF name = "v_viewmats" THEN camera_ids ELSE gaussian_ids
AccumulatorOf(name) == IF name = "v_viewmats" THEN v_viewmats ELSE SparseBuffer(name)

\* the records placed in subgroup w, and the rank-0 record of a label group:
\* the lowest record of its subgroup that carries its id
SubgroupOf(idx) == idx \div WarpLanes
Rank0(idx, label) ==
    \A j \in 0 .. nnz - 1 :
        SubgroupOf(j) = SubgroupOf(idx) /\ label[j] = label[idx] => idx <= j

\* C25: an element of an accumulator is added to only by threads of rank 0
\* in the label group of that element's id, one per subgroup in which the
\* id is present; once the kernel has completed, each subgroup has added to
\* each element exactly once if the id is present in it and not at all
\* otherwise, so its adds number the distinct ids present in it.  Every
\* change of an accumulator is the add of one thread to one element.
C25_OneAtomicAddPerGroup ==
    /\ [](bwd_launched =>
            \A name \in Accumulators :
                \A row \in DOMAIN writers[name] :
                    /\ \A idx \in writers[name][row] :
                          /\ idx < nnz /\ LabelOf(name)[idx] = row
                          /\ Rank0(idx, LabelOf(name))
                    /\ BwdDone =>
                          \A w \in {SubgroupOf(j) : j \in 0 .. nnz - 1} :
                              Cardinality({idx \in writers[name][row] : SubgroupOf(idx) = w})
                                 = IF \E j \in 0 .. nnz - 1 :
                                         SubgroupOf(j) = w /\ LabelOf(name)[j] = row
                                   THEN 1 ELSE 0)
    /\ [][bwd_launched =>
            \A name \in Accumulators :
                \A row \in DOMAIN writers[name] :
                    AccumulatorOf(name)'[row] # AccumulatorOf(name)[row] =>
                        /\ \E idx \in 0 .. nnz - 1 :
                              /\ writers'[name][row] = writers[name][row] \cup {idx}
                              /\ idx \notin writers[name][row]
                        /\ \A other \in DOMAIN writers[name] \ {row} :
                              AccumulatorOf(name)'[other] = AccumulatorOf(name)[other]]_vars

\* three records of one primitive and one camera in two subgroups: the
\* first record of each subgroup, and no other, has added to the row of the
\* primitive and to the entry of the camera
C25_Witness ==
    /\ BwdDone /\ ~sparse_grad /\ viewmats_requires_grad /\ nnz = 3
    /\ \A idx \in 0 .. nnz - 1 : gaussian_ids[idx] = 0 /\ camera_ids[idx] = 0
    /\ writers["v_means"][0] = {0, WarpLanes}
    /\ writers["v_viewmats"][0] = {0, WarpLanes}
    /\ writers["v_means"][1] = {}

----------------------------------------------------------------------------
(* Projection backward: the reduction before the add *)

\* the label group of a record: the records of its subgroup with its id
LabelGroup(idx, label) ==
    {j \in 0 .. nnz - 1 : SubgroupOf(j) = SubgroupOf(idx) /\ label[j] = label[idx]}
Reduced(idx, label, reg, f) ==
    /\ \A j \in LabelGroup(idx, label) : kpc[j] # "start"
    /\ reg \in FloatSums(LabelGroup(idx, label), Local(f))

\* C26: a thread that is about to add to an accumulator holds in its
\* registers the reduced gradients of its label group, each of them a sum
\* of the local gradients of all the threads of the group, which have all
\* computed theirs.  A thread's registers change only by its own
\* computation or by a reduction at which every thread of its subgroup that
\* has not returned has arrived.
C26_AddAfterReduction ==
    /\ [](\A idx \in KThreads :
             /\ kpc[idx] = "atomic_g" =>
                   /\ Reduced(idx, gaussian_ids, regs[idx].v_mean, "v_mean")
                   /\ IF has_covars
                      THEN Reduced(idx, gaussian_ids, regs[idx].v_covar, "v_covar")
                      ELSE /\ Reduced(idx, gaussian_ids, regs[idx].v_quat, "v_quat")
                           /\ Reduced(idx, gaussian_ids, regs[idx].v_scale, "v_scale")
             /\ kpc[idx] = "atomic_c" =>
                   /\ Reduced(idx, camera_ids, regs[idx].v_R, "v_R")
                   /\ Reduced(idx, camera_ids, regs[idx].v_t, "v_t"))
    /\ [][\A idx \in KThreads :
             regs'[idx] # regs[idx] =>
                 \/ kpc[idx] = "start"
                 \/ /\ kpc[idx] \in {"partition_g", "partition_c"}
                    /\ \A j \in KThreads :
                          SubgroupOf(j) = SubgroupOf(idx) =>
                              kpc[j] \in {kpc[idx], "exit"}]_vars

\* the first thread of a subgroup is about to add the sum of the two
\* records of its group, after both have been reduced
C26_Witness ==
    /\ ~sparse_grad /\ nnz >= 2
    /\ gaussian_ids[0] = gaussian_ids[1]
    /\ v_depths[0] = 1 /\ v_depths[1] = 1
    /\ kpc[0] = "atomic_g" /\ kpc[1] # "partition_g"
    /\ regs[0].v_mean = 2
    /\ v_means[gaussian_ids[0]] = 0


----------------------------------------------------------------------------
(* Projection backward: the covariance parameterization *)

\* the rows a layout gives the primitive gradients, that have a record
RowsWithRecords ==
    IF sparse_grad THEN 0 .. nnz - 1
    ELSE {g \in 0 .. N - 1 : RecordsOf(gaussian_ids, g) # {}}
\* the records a row of the layout takes its gradient from
RecordsOfRow(row) == IF sparse_grad THEN {row} ELSE RecordsOf(gaussian_ids, row)
\* the two triangle halves of a record's off-diagonal gradient, added
BothHalves == [idx \in 0 .. nnz - 1 |-> Local("v_covar_01")[idx] + Local("v_covar_10")[idx]]
\* the rows of a buffer some thread has written
WrittenRows(name) == {row \in DOMAIN writers[name] : writers[name][row] # {}}

\* C27: the parameterization is fixed for the call by the presence of the
\* covariances.  With covariances the kernel writes the covariance gradient
\* (and the mean gradient) and never a quaternion or scale gradient, which stay
\* unallocated; once complete every row with a record has been written and
\* its off-diagonal entry is the sum, over the row's records, of both triangle
\* halves.  Without covariances the kernel writes the quaternion and the scale
\* gradients, the same rows of both, and never a covariance gradient.  No step
\* changes buffers of both parameterizations; the sparse and the dense layout
\* alike.
C27_OneParameterizationPerCall ==
    /\ [](bwd_launched =>
            /\ has_covars =>
                  /\ v_quats = NoTensor /\ v_scales = NoTensor
                  /\ WrittenRows("v_quats") = {} /\ WrittenRows("v_scales") = {}
                  /\ BwdDone =>
                        /\ WrittenRows("v_covars") = RowsWithRecords
                        /\ \A row \in RowsWithRecords :
                              v_covars_off[row] = ExactSum(RecordsOfRow(row), BothHalves)
            /\ ~has_covars =>
                  /\ v_covars = NoTensor /\ v_covars_off = NoTensor
                  /\ WrittenRows("v_covars") = {}
                  /\ WrittenRows("v_quats") = WrittenRows("v_scales")
                  /\ BwdDone => WrittenRows("v_quats") = RowsWithRecords)
    /\ [][/\ has_covars' = has_covars
          /\ <<v_covars, v_covars_off>>' = <<v_covars, v_covars_off>>
                \/ <<v_quats, v_scales>>' = <<v_quats, v_scales>>]_vars
\* the dense layout has completed with covariances supplied, a row having
\* taken the off-diagonal halves of two records
C27_Witness ==
    /\ BwdDone /\ has_covars /\ ~sparse_grad
    /\ \E g \in 0 .. N - 1 :
          /\ Cardinality(RecordsOf(gaussian_ids, g)) >= 2
          /\ v_covars_off[g] = ExactSum(RecordsOf(gaussian_ids, g), BothHalves)
          /\ v_covars_off[g] >= 6


----------------------------------------------------------------------------
(* Forward compositor: determinism and independence of the tiles *)

\* One pixel composited by a single sequential loop over the positions
\* lo .. hi - 1 of a column ids of record ids: a record with negative sigma
\* or alpha below 1/255 is passed over, a record that would bring T to 1e-4
\* or less ends the loop without contributing.
SeqState0 == [T |-> FxOne, pix_out |-> ZeroColor, cur_idx |-> 0, done |-> FALSE]
RECURSIVE SeqLoop(_, _, _, _, _)
SeqLoop(th, ids, lo, hi, st) ==
    IF lo >= hi \/ st.done THEN st
    ELSE LET a == RefAlpha(ids[lo], th)
             nT == RefMul(st.T, FxOne - a)
         IN  IF a < 0 THEN SeqLoop(th, ids, lo + 1, hi, st)
             ELSE IF nT <= FxOne \div 10000 THEN [st EXCEPT !.done = TRUE]
             ELSE SeqLoop(th, ids, lo + 1, hi,
                      [T |-> nT,
                       pix_out |-> [k \in Channels |->
                                      st.pix_out[k]
                                      + RefMul(colors(ids[lo], k), RefMul(a, st.T))],
                       cur_idx |-> lo, done |-> FALSE])
\* what the pixel of th is written with, given the loop's last state and the
\* background of its camera (bg), if one is supplied
SeqPixel(st, bg) ==
    [color |-> [k \in Channels |->
                   IF has_backgrounds
                   THEN st.pix_out[k] + RefMul(st.T, bg[((k - 1) % 2) + 1])
                   ELSE st.pix_out[k]],
     alpha |-> FxOne - st.T,
     last  |-> st.cur_idx]
\* what the outputs hold at the pixel of th
PixelWritten(th) ==
    [color |-> render_colors[PixelOf(th)],
     alpha |-> render_alphas[PixelOf(th)],
     last  |-> last_ids[PixelOf(th)]]

\* the record columns that agree with flatten_ids on the range of th's tile
\* and hold any record elsewhere
SameOwnRange(th) ==
    {ids \in [0 .. n_isects - 1 -> 0 .. NumRecords - 1] :
        \A pos \in RangeOf(BlockOf(th)) : ids[pos] = flatten_ids[pos]}
\* the background tables that agree with the call's on th's camera
SameOwnBackground(th) ==
    {bgs \in [0 .. geom.C - 1 -> {BackgroundTable[1], BackgroundTable[2], <<0, 0>>}] :
        bgs[BlockOf(th)[1]] = BackgroundTable[BlockOf(th)[1] + 1]}

\* C28: the inputs never change and a step stores only to the pixel of the
\* thread that takes it; whatever the order of the blocks and the
\* interleaving of their threads, the colour, coverage and last id a
\* completed kernel has written to a pixel are those of a sequential loop
\* over the range of the pixel's own (camera, tile), given that camera's
\* background, and they are the same for every other content of the other
\* ranges and every other background of the other cameras.
C28_DeterministicAndTileIndependent ==
    /\ [](\A th \in Threads :
             Delivered(th) =>
                \A ids \in SameOwnRange(th) : \A bgs \in SameOwnBackground(th) :
                    PixelWritten(th) =
                        SeqPixel(SeqLoop(th, ids, RangeLo(BlockOf(th)),
                                         RangeHi(BlockOf(th)), SeqState0),
                                 bgs[BlockOf(th)[1]]))
    /\ [][/\ kernelArgs' = kernelArgs
          /\ \A p \in DOMAIN render_alphas :
                <<render_colors[p], render_alphas[p], last_ids[p]>>'
                    # <<render_colors[p], render_alphas[p], last_ids[p]>>
                => \E th \in Threads :
                      /\ InImage(th) /\ PixelOf(th) = p
                      /\ pc[th] = "final" /\ pc'[th] = "exit"]_vars
\* a completed kernel with a background, and a pixel of the second camera
\* with two contributing records while the first camera's range holds a
\* record that is not in the pixel's own range
C28_Witness ==
    \E th \in Threads :
        /\ Delivered(th) /\ has_backgrounds /\ BlockOf(th)[1] = 1
        /\ Ref(th).n >= 2
        /\ \E pos \in 0 .. n_isects - 1 :
              /\ pos \notin RangeOf(BlockOf(th))
              /\ \A own \in RangeOf(BlockOf(th)) : flatten_ids[pos] # flatten_ids[own]


----------------------------------------------------------------------------
(* Forward compositor: the batched loop refines the sequential one *)

\* the state of the sequential loop of th's pixel after the first n records
\* of its range
SeqAfter(th, n) ==
    SeqLoop(th, flatten_ids, RangeLo(BlockOf(th)), RangeLo(BlockOf(th)) + n, SeqState0)
RangeLength(blk) == RangeHi(blk) - RangeLo(blk)

\* C29: in every state, whatever the length of the range and the size of the
\* block, a thread of a pixel that has evaluated n records has evaluated the
\* first n of its range and holds in T, pix_out, cur_idx and done the state
\* of a single sequential loop after those n records; the records staged but
\* not evaluated and the batch boundaries leave no trace in it.  The pixel
\* is written with the result of the sequential loop over the whole range.
C29_BatchedRefinesSequential ==
    \A th \in Threads :
        InImage(th) =>
            LET n == Len(evaluated[th])
                st == SeqAfter(th, n)
            IN  /\ n <= RangeLength(BlockOf(th))
                /\ \A i \in 1 .. n : evaluated[th][i] = RangeLo(BlockOf(th)) + i - 1
                /\ T[th] = st.T /\ pix_out[th] = st.pix_out
                /\ cur_idx[th] = st.cur_idx /\ done[th] = st.done
                /\ pc[th] \in {"final", "exit"} =>
                      SeqAfter(th, RangeLength(BlockOf(th))) = st
                /\ pc[th] = "exit" =>
                      PixelWritten(th)
                          = SeqPixel(st, BackgroundTable[BlockOf(th)[1] + 1])
\* a pixel under a block of four threads, written after five records, of
\* which the last, alone in the second batch, contributed
C29_Witness ==
    \E th \in Threads :
        /\ InImage(th) /\ pc[th] = "exit" /\ block_size = 4
        /\ RangeLength(BlockOf(th)) = 5
        /\ Len(evaluated[th]) = 5
        /\ last_ids[PixelOf(th)] = 4


----------------------------------------------------------------------------
(* Forward compositor: the weights of a pixel *)

\* the records the pixel of th has accumulated so far
Accumulated(th) ==
    RefFold(th, RangeLo(BlockOf(th)), RangeLo(BlockOf(th)) + Len(evaluated[th]),
            RefState0, TRUE).n
\* every record of the range of th's tile, and the background of its camera,
\* has the colour c in channel k
SameColor(th, k, c) ==
    /\ has_backgrounds
    /\ backgrounds(BlockOf(th)[1], k) = c
    /\ \A pos \in RangeOf(BlockOf(th)) : colors(flatten_ids[pos], k) = c

Dist(x, y) == IF x < y THEN y - x ELSE x - y

----------------------------------------------------------------------------
(* Projection backward: completion for every record count *)

\* the threads of the grid at or beyond the record count
PastRecords == {idx \in KThreads : idx >= nnz}
\* the accumulator elements and sparse rows thread idx has written
WrittenBy(idx) ==
    {<<name, row>> \in UNION {{name} \X DOMAIN writers[name] : name \in DOMAIN writers} :
        idx \in writers[name][row]}
\* subgroup w holds a record and a thread that is past the records
PartlyFilled(w) ==
    /\ \E idx \in KThreads : SubgroupOf(idx) = w /\ idx < nnz
    /\ \E idx \in PastRecords : SubgroupOf(idx) = w
\* a thread waits in a partition of its subgroup
Partitioning(idx) == kpc[idx] \in {"partition_g", "partition_c"}

\* C31: the kernel completes for every record count, a multiple of the
\* subgroup width and of the block size or not.  A thread at or beyond the
\* record count returns from its first step: it never waits in a partition,
\* keeps no gradient and writes to no buffer.  The threads that wait in a
\* partition go on as soon as every other thread of their subgroup waits in
\* it too or has returned: they do not wait for a returned thread to
\* arrive.  Some thread or subgroup can step until all threads have
\* returned, and under a scheduler that keeps running them all threads
\* return, the rank-0 thread of every label group of every subgroup, partly
\* filled or not, having added to its accumulators.
C31_CompletesForEveryRecordCount ==
    /\ [](\A idx \in PastRecords :
             /\ kpc[idx] \in {"start", "exit"}
             /\ regs[idx] = NoGradients
             /\ WrittenBy(idx) = {})
    /\ [](\A idx \in KThreads :
             /\ Partitioning(idx)
             /\ \A j \in KThreads :
                   SubgroupOf(j) = SubgroupOf(idx) => kpc[j] \in {kpc[idx], "exit"}
             => IF kpc[idx] = "partition_g"
                THEN ENABLED PartitionG(SubgroupOf(idx))
                ELSE ENABLED PartitionC(SubgroupOf(idx)))
    /\ [](~BwdDone => ENABLED NextBwd)
    /\ <>[]BwdDone
    /\ [](BwdDone =>
             \A name \in Accumulators : \A idx \in 0 .. nnz - 1 :
                 Rank0(idx, LabelOf(name)) => <<name, LabelOf(name)[idx]>> \in WrittenBy(idx))
\* a completed kernel whose record count is a multiple neither of the
\* subgroup width nor of the block size: the only record of the last
\* subgroup has added to its rows beside a thread that returned at once
C31_Witness ==
    /\ BwdDone /\ ~sparse_grad /\ viewmats_requires_grad
    /\ nnz % WarpLanes # 0 /\ nnz % N_THREADS # 0
    /\ PartlyFilled(SubgroupOf(nnz - 1))
    /\ <<"v_means", gaussian_ids[nnz - 1]>> \in WrittenBy(nnz - 1)
    /\ <<"v_viewmats", camera_ids[nnz - 1]>> \in WrittenBy(nnz - 1)

====
